---------------------------- MODULE Spec2Model ----------------------------
(***************************************************************************)
(* A model of otp2289 (RFC-2289 one-time passwords): the word codec and    *)
(* the hash chain of the generator, the server-side OTPState and the       *)
(* OTPStore that advances a key's state on a successful validation.        *)
(*                                                                         *)
(* Python values are modelled as follows.                                  *)
(*   bytes : a sequence of integers 0..255                                 *)
(*   str   : a sequence of code points (ord of each character).  A         *)
(*           dictionary word of the six-word form is one item above the    *)
(*           Unicode range, DictWord(i) in upper case and DictWordLower(i) *)
(*           in lower case, i being its index in the 2048-word dictionary; *)
(*           such an item stands for the 1..4 letters of the word and only *)
(*           occurs as a whole whitespace-delimited word                   *)
(*   a value of any type: a record [t, v], t the type's name and v the     *)
(*           str or bytes as above, <<n>> for the int n, <<>> for None     *)
(*   a call: a record [exc, msg, val]: exc = "" and the returned value, or *)
(*           the exception's class name and its message                    *)
(* hashlib.md5 and hashlib.sha1 are tables of their true values on the     *)
(* inputs the model uses (the RFC-2289 Appendix C chains).                 *)
(***************************************************************************)
EXTENDS Integers, Sequences, FiniteSets, TLC

(***************************************************************************)
(* Bounds of the model.                                                    *)
(***************************************************************************)
\* OTPState objects that are ever allocated (constructed or next states)
MaxObjs == 3
\* OTPState constructor calls made by the caller
MaxNew == 1
\* largest current_step the caller provisions
MaxStep == 2
\* OTPState objects allocated while the caller works on states directly
MaxHeld == 2
\* largest step a generator is asked for
MaxChain == 5

\* a person at the password prompts of initiate-new-sequence types two
\* different passwords at most MaxPrompts times
MaxPrompts == 2

(***************************************************************************)
(* Python primitives.                                                      *)
(***************************************************************************)
PyNone == [t |-> "NoneType", v |-> <<>>]

PyStr(s) == [t |-> "str", v |-> s]

PyBytes(b) == [t |-> "bytes", v |-> b]

PyInt(n) == [t |-> "int", v |-> <<n>>]

Ok(v) == [exc |-> "", msg |-> "", val |-> v]

Raise(e, m) == [exc |-> e, msg |-> m, val |-> <<>>]

RECURSIVE XorBits(_, _, _)
XorBits(a, b, n) ==
  IF n = 0 THEN 0
  ELSE (((a % 2) + (b % 2)) % 2) + 2 * XorBits(a \div 2, b \div 2, n - 1)

\* a ^ b for every two 4-bit values, computed once
XOR_MEMO == [a \in 0..15 |-> [b \in 0..15 |-> XorBits(a, b, 4)]]

\* a ^ b on two bytes
XorByte(a, b) ==
  16 * XOR_MEMO[a \div 16][b \div 16] + XOR_MEMO[a % 16][b % 16]

\* the bits of an n-bit integer, most significant first
RECURSIVE IntToBits(_, _)
IntToBits(v, n) ==
  IF n = 0 THEN <<>> ELSE Append(IntToBits(v \div 2, n - 1), (v % 2))

RECURSIVE BitsToInt(_)
BitsToInt(bits) ==
  IF bits = <<>> THEN 0
  ELSE 2 * BitsToInt(SubSeq(bits, 1, Len(bits) - 1)) + bits[Len(bits)]

RECURSIVE BytesToBits(_)
BytesToBits(b) ==
  IF b = <<>> THEN <<>> ELSE IntToBits(Head(b), 8) \o BytesToBits(Tail(b))

RECURSIVE BitsToBytes(_)
BitsToBytes(bits) ==
  IF bits = <<>> THEN <<>>
  ELSE <<BitsToInt(SubSeq(bits, 1, 8))>> \o BitsToBytes(SubSeq(bits, 9, Len(bits)))

Reverse(s) == [i \in 1..Len(s) |-> s[Len(s) + 1 - i]]

IsWhitespace(c) == c \in {9, 10, 11, 12, 13, 32}

IsHexDigit(c) == c \in (48..57) \cup (65..70) \cup (97..102)

IsAsciiAlnum(c) == c \in (48..57) \cup (65..90) \cup (97..122)

DictWord(i) == 2097152 + i

DictWordLower(i) == 4194304 + i

IsDictItem(c) == c >= 2097152

\* str.lower() and str.upper(), one character
LowerChar(c) ==
  IF c \in 65..90 THEN c + 32
  ELSE IF c >= 2097152 /\ c < 4194304 THEN c + 2097152
  ELSE c

UpperChar(c) ==
  IF c \in 97..122 THEN c - 32
  ELSE IF c >= 4194304 THEN c - 2097152
  ELSE c

lower(s) == [i \in 1..Len(s) |-> LowerChar(s[i])]

upper(s) == [i \in 1..Len(s) |-> UpperChar(s[i])]

RECURSIVE lstrip(_)
lstrip(s) ==
  IF s # <<>> /\ IsWhitespace(Head(s)) THEN lstrip(Tail(s)) ELSE s

\* str.strip()
strip(s) == Reverse(lstrip(Reverse(lstrip(s))))

startswith(s, p) == Len(s) >= Len(p) /\ SubSeq(s, 1, Len(p)) = p

\* str.split(): the whitespace-delimited words of s
RECURSIVE SplitFrom(_, _, _)
SplitFrom(s, cur, acc) ==
  IF s = <<>> THEN (IF cur = <<>> THEN acc ELSE Append(acc, cur))
  ELSE IF IsWhitespace(Head(s))
       THEN SplitFrom(Tail(s), <<>>, IF cur = <<>> THEN acc ELSE Append(acc, cur))
       ELSE SplitFrom(Tail(s), Append(cur, Head(s)), acc)

split(s) == SplitFrom(s, <<>>, <<>>)

HexDigitOf(n) == IF n < 10 THEN 48 + n ELSE 87 + n

HexValueOf(c) ==
  IF c \in 48..57 THEN c - 48
  ELSE IF c \in 97..102 THEN c - 87
  ELSE c - 55

\* binascii.hexlify(b).decode(): two lower-case hex digits per byte
RECURSIVE hexlify(_)
hexlify(b) ==
  IF b = <<>> THEN <<>>
  ELSE <<HexDigitOf(Head(b) \div 16), HexDigitOf((Head(b) % 16))>> \o hexlify(Tail(b))

RECURSIVE HexPairs(_)
HexPairs(s) ==
  IF s = <<>> THEN <<>>
  ELSE <<16 * HexValueOf(s[1]) + HexValueOf(s[2])>> \o HexPairs(SubSeq(s, 3, Len(s)))

\* binascii.unhexlify(s) of a str: a str with a non-ASCII character is refused
\* with ValueError before any digit is read; an odd length or a character that
\* is no hex digit is binascii.Error
unhexlify(s) ==
  IF \E i \in 1..Len(s) : s[i] > 127
    THEN Raise("ValueError", "string argument should contain only ASCII characters")
  ELSE IF Len(s) % 2 = 1
    THEN Raise("binascii.Error", "Odd-length string")
  ELSE IF \E i \in 1..Len(s) : ~IsHexDigit(s[i])
    THEN Raise("binascii.Error", "Non-hexadecimal digit found")
  ELSE Ok(HexPairs(s))

(***************************************************************************)
(* hashlib: the true MD5 and SHA-1 digests of the inputs of the model.     *)
(***************************************************************************)
MD5_TABLE ==
  \* b'ab12345' + b'This is a test.'
  <<97, 98, 49, 50, 51, 52, 53, 84, 104, 105, 115, 32, 105, 115, 32, 97, 32, 116, 101, 115, 116, 46>> :>
    <<93, 222, 71, 34, 92, 124, 86, 44, 39, 174, 197, 124, 255, 117, 129, 155>>
  @@
  \* 7a70825ea309d7b7 (md5, seed Ab12345, step 0)
  <<122, 112, 130, 94, 163, 9, 215, 183>> :>
    <<25, 109, 196, 209, 233, 38, 199, 220, 14, 104, 188, 214, 170, 167, 5, 22>>
  @@
  \* 170578074381c2ca (md5, seed Ab12345, step 1)
  <<23, 5, 120, 7, 67, 129, 194, 202>> :>
    <<73, 243, 77, 238, 99, 171, 231, 133, 3, 19, 89, 134, 136, 206, 250, 197>>
  @@
  \* 6851b5e69ef5a9db (sha1, seed Ab12345, step 0)
  <<104, 81, 181, 230, 158, 245, 169, 219>> :>
    <<59, 236, 33, 108, 113, 96, 20, 108, 15, 194, 182, 6, 166, 163, 60, 88>>
  @@
  \* 2530279241dba721 (sha1, seed Ab12345, step 1)
  <<37, 48, 39, 146, 65, 219, 167, 33>> :>
    <<42, 237, 228, 102, 118, 194, 7, 55, 223, 19, 142, 81, 110, 192, 242, 44>>
  @@
  \* b'test' + b'This is a test.'
  <<116, 101, 115, 116, 84, 104, 105, 115, 32, 105, 115, 32, 97, 32, 116, 101, 115, 116, 46>> :>
    <<175, 255, 166, 107, 137, 240, 109, 57, 49, 120, 199, 95, 80, 244, 244, 228>>
  @@
  \* b'alpha1' + b'AbCdEfGhIjK'
  <<97, 108, 112, 104, 97, 49, 65, 98, 67, 100, 69, 102, 71, 104, 73, 106, 75>> :>
    <<113, 75, 118, 191, 182, 143, 137, 59, 246, 77, 27, 102, 210, 196, 123, 61>>
  @@
  \* 9e876134d90499dd (md5, seed TeSt, step 0)
  <<158, 135, 97, 52, 217, 4, 153, 221>> :>
    <<37, 242, 183, 29, 154, 111, 90, 16, 92, 151, 87, 73, 172, 154, 88, 143>>
  @@
  \* 7965e05436f5029f (md5, seed TeSt, step 1)
  <<121, 101, 224, 84, 54, 245, 2, 159>> :>
    <<135, 148, 123, 18, 209, 91, 195, 225, 199, 221, 131, 163, 176, 61, 88, 154>>
  @@
  \* 4049f8b161669b7b (md5, seed TeSt, step 2)
  <<64, 73, 248, 177, 97, 102, 155, 123>> :>
    <<17, 136, 62, 163, 241, 120, 170, 48, 66, 183, 128, 201, 144, 49, 95, 6>>
  @@
  \* 533fbe6a6149f536 (md5, seed TeSt, step 3)
  <<83, 63, 190, 106, 97, 73, 245, 54>> :>
    <<13, 120, 223, 6, 189, 188, 101, 135, 54, 23, 157, 142, 237, 22, 160, 130>>
  @@
  \* 3b6f428850aac505 (md5, seed TeSt, step 4)
  <<59, 111, 66, 136, 80, 170, 197, 5>> :>
    <<201, 109, 141, 148, 40, 99, 241, 103, 229, 196, 188, 41, 245, 53, 249, 214>>
  @@
  \* 2ca931bddd5608b1 (md5, seed TeSt, step 5)
  <<44, 169, 49, 189, 221, 86, 8, 177>> :>
    <<241, 71, 146, 153, 176, 194, 133, 84, 165, 120, 50, 141, 236, 58, 160, 145>>
  @@
  \* 543fa0145cf825c5 (md5, seed TeSt, step 6)
  <<84, 63, 160, 20, 92, 248, 37, 197>> :>
    <<249, 153, 139, 189, 85, 212, 187, 234, 153, 141, 93, 0, 128, 162, 172, 36>>
  @@
  \* bb9e6ae1979d8ff4 (sha1, seed TeSt, step 0)
  <<187, 158, 106, 225, 151, 157, 143, 244>> :>
    <<15, 95, 230, 108, 12, 107, 150, 53, 55, 43, 150, 147, 36, 11, 86, 153>>
  @@
  \* 63d936639734385b (sha1, seed TeSt, step 1)
  <<99, 217, 54, 99, 151, 52, 56, 91>> :>
    <<34, 54, 246, 176, 244, 154, 3, 124, 222, 126, 192, 7, 46, 150, 4, 72>>
  @@
  \* fc2e8bfad982d176 (sha1, seed TeSt, step 2)
  <<252, 46, 139, 250, 217, 130, 209, 118>> :>
    <<24, 225, 88, 197, 6, 234, 151, 194, 173, 113, 151, 184, 50, 105, 93, 35>>
  @@
  \* 57341d182ce4c9db (sha1, seed TeSt, step 3)
  <<87, 52, 29, 24, 44, 228, 201, 219>> :>
    <<171, 60, 218, 186, 192, 32, 168, 116, 140, 85, 195, 175, 66, 121, 84, 167>>
  @@
  \* 0c2176907748b53b (sha1, seed TeSt, step 4)
  <<12, 33, 118, 144, 119, 72, 181, 59>> :>
    <<181, 233, 29, 178, 154, 182, 212, 252, 201, 236, 36, 20, 35, 74, 166, 69>>
  @@
  \* 2185dbb1a2f61996 (sha1, seed TeSt, step 5)
  <<33, 133, 219, 177, 162, 246, 25, 150>> :>
    <<179, 254, 6, 87, 26, 196, 223, 11, 144, 172, 150, 25, 142, 209, 85, 49>>
  @@
  \* 9f0d0066fec1865a (sha1, seed TeSt, step 6)
  <<159, 13, 0, 102, 254, 193, 134, 90>> :>
    <<225, 66, 80, 102, 73, 185, 191, 255, 217, 155, 123, 143, 102, 203, 204, 32>>
  @@
  \* 87066dd9644bf206 (md5, seed alpha1, step 0)
  <<135, 6, 109, 217, 100, 75, 242, 6>> :>
    <<165, 50, 125, 130, 208, 223, 185, 19, 217, 225, 49, 146, 144, 114, 104, 88>>
  @@
  \* 7cd34c1040add14b (md5, seed alpha1, step 1)
  <<124, 211, 76, 16, 64, 173, 209, 75>> :>
    <<67, 253, 231, 107, 240, 199, 77, 238, 62, 51, 23, 224, 106, 181, 83, 63>>
  @@
  \* 7dcef08b9a721ed1 (md5, seed alpha1, step 2)
  <<125, 206, 240, 139, 154, 114, 30, 209>> :>
    <<251, 25, 117, 250, 153, 231, 188, 215, 108, 207, 127, 73, 47, 152, 23, 147>>
  @@
  \* 97d60ab3b67fab44 (md5, seed alpha1, step 3)
  <<151, 214, 10, 179, 182, 127, 171, 68>> :>
    <<205, 13, 6, 230, 15, 97, 146, 93, 68, 8, 72, 62, 41, 162, 59, 141>>
  @@
  \* 89054ed826c3a9d0 (md5, seed alpha1, step 4)
  <<137, 5, 78, 216, 38, 195, 169, 208>> :>
    <<151, 228, 58, 222, 49, 189, 25, 59, 103, 239, 126, 33, 72, 9, 204, 121>>
  @@
  \* f00b44ff79b4d542 (md5, seed alpha1, step 5)
  <<240, 11, 68, 255, 121, 180, 213, 66>> :>
    <<10, 100, 222, 127, 49, 57, 165, 160, 159, 111, 113, 241, 164, 150, 197, 162>>
  @@
  \* 950baf8e95af6002 (md5, seed alpha1, step 6)
  <<149, 11, 175, 142, 149, 175, 96, 2>> :>
    <<211, 160, 95, 173, 110, 179, 219, 13, 233, 247, 153, 92, 219, 96, 34, 222>>
  @@
  \* ad85f658ebe383c9 (sha1, seed alpha1, step 0)
  <<173, 133, 246, 88, 235, 227, 131, 201>> :>
    <<209, 22, 235, 168, 182, 69, 103, 140, 159, 106, 190, 163, 5, 43, 134, 125>>
  @@
  \* d07ce229b5cf119b (sha1, seed alpha1, step 1)
  <<208, 124, 226, 41, 181, 207, 17, 155>> :>
    <<171, 153, 48, 157, 237, 54, 1, 109, 90, 180, 66, 45, 233, 105, 65, 21>>
  @@
  \* 5cb6c24c3e46f33f (sha1, seed alpha1, step 2)
  <<92, 182, 194, 76, 62, 70, 243, 63>> :>
    <<94, 143, 80, 251, 22, 241, 205, 92, 0, 153, 240, 205, 136, 230, 158, 22>>
  @@
  \* 005ee68a459c77b8 (sha1, seed alpha1, step 3)
  <<0, 94, 230, 138, 69, 156, 119, 184>> :>
    <<248, 237, 104, 191, 52, 228, 173, 163, 135, 185, 200, 158, 142, 102, 183, 39>>
  @@
  \* 8598db19f8e18151 (sha1, seed alpha1, step 4)
  <<133, 152, 219, 25, 248, 225, 129, 81>> :>
    <<135, 32, 172, 173, 181, 144, 217, 9, 219, 233, 157, 226, 162, 63, 171, 156>>
  @@
  \* cce3d6e0a855d49a (sha1, seed alpha1, step 5)
  <<204, 227, 214, 224, 168, 85, 212, 154>> :>
    <<202, 27, 130, 202, 129, 175, 199, 227, 82, 100, 220, 227, 106, 125, 160, 34>>
  @@
  \* 466d1e37e6ad8474 (sha1, seed alpha1, step 6)
  <<70, 109, 30, 55, 230, 173, 132, 116>> :>
    <<248, 141, 110, 101, 23, 88, 80, 50, 213, 59, 111, 17, 82, 198, 59, 131>>
  @@
  \* 0000000000000000
  <<0, 0, 0, 0, 0, 0, 0, 0>> :>
    <<125, 234, 54, 43, 63, 172, 142, 0, 149, 106, 73, 82, 163, 212, 244, 116>>
  @@
  \* ffffffffffffffff
  <<255, 255, 255, 255, 255, 255, 255, 255>> :>
    <<194, 203, 86, 244, 197, 191, 101, 111, 172, 160, 152, 110, 126, 186, 3, 8>>

SHA1_TABLE ==
  \* b'ab12345' + b'This is a test.'
  <<97, 98, 49, 50, 51, 52, 53, 84, 104, 105, 115, 32, 105, 115, 32, 97, 32, 116, 101, 115, 116, 46>> :>
    <<27, 94, 56, 100, 117, 132, 121, 12, 81, 196, 173, 150, 174, 45, 140, 146, 172, 47, 196, 154>>
  @@
  \* 7a70825ea309d7b7 (md5, seed Ab12345, step 0)
  <<122, 112, 130, 94, 163, 9, 215, 183>> :>
    <<133, 168, 200, 224, 30, 184, 154, 179, 120, 185, 89, 51, 197, 213, 156, 139, 19, 59, 133, 13>>
  @@
  \* 170578074381c2ca (md5, seed Ab12345, step 1)
  <<23, 5, 120, 7, 67, 129, 194, 202>> :>
    <<6, 107, 23, 122, 108, 94, 125, 122, 88, 134, 197, 155, 158, 192, 55, 176, 67, 210, 71, 242>>
  @@
  \* 6851b5e69ef5a9db (sha1, seed Ab12345, step 0)
  <<104, 81, 181, 230, 158, 245, 169, 219>> :>
    <<202, 234, 128, 42, 4, 175, 198, 130, 39, 246, 23, 162, 37, 8, 29, 195, 127, 59, 167, 173>>
  @@
  \* 2530279241dba721 (sha1, seed Ab12345, step 1)
  <<37, 48, 39, 146, 65, 219, 167, 33>> :>
    <<86, 229, 1, 113, 46, 133, 195, 11, 82, 23, 254, 225, 215, 28, 141, 121, 146, 136, 175, 39>>
  @@
  \* b'test' + b'This is a test.'
  <<116, 101, 115, 116, 84, 104, 105, 115, 32, 105, 115, 32, 97, 32, 116, 101, 115, 116, 46>> :>
    <<212, 182, 199, 84, 192, 130, 68, 152, 16, 100, 110, 133, 52, 13, 217, 15, 37, 184, 55, 106>>
  @@
  \* b'alpha1' + b'AbCdEfGhIjK'
  <<97, 108, 112, 104, 97, 49, 65, 98, 67, 100, 69, 102, 71, 104, 73, 106, 75>> :>
    <<90, 235, 186, 98, 122, 178, 169, 98, 209, 145, 29, 229, 179, 49, 74, 137, 211, 140, 34, 42>>
  @@
  \* 9e876134d90499dd (md5, seed TeSt, step 0)
  <<158, 135, 97, 52, 217, 4, 153, 221>> :>
    <<114, 13, 97, 29, 212, 39, 145, 31, 11, 79, 250, 198, 126, 245, 233, 235, 120, 199, 29, 32>>
  @@
  \* 7965e05436f5029f (md5, seed TeSt, step 1)
  <<121, 101, 224, 84, 54, 245, 2, 159>> :>
    <<141, 198, 84, 70, 5, 181, 82, 181, 135, 204, 240, 82, 229, 241, 151, 19, 44, 121, 130, 110>>
  @@
  \* 4049f8b161669b7b (md5, seed TeSt, step 2)
  <<64, 73, 248, 177, 97, 102, 155, 123>> :>
    <<112, 171, 218, 135, 238, 130, 158, 77, 35, 19, 184, 207, 249, 56, 98, 36, 12, 174, 93, 16>>
  @@
  \* 533fbe6a6149f536 (md5, seed TeSt, step 3)
  <<83, 63, 190, 106, 97, 73, 245, 54>> :>
    <<93, 9, 196, 10, 25, 22, 185, 206, 232, 171, 232, 226, 71, 77, 214, 65, 110, 247, 245, 167>>
  @@
  \* 3b6f428850aac505 (md5, seed TeSt, step 4)
  <<59, 111, 66, 136, 80, 170, 197, 5>> :>
    <<22, 224, 56, 156, 147, 108, 160, 31, 47, 207, 130, 246, 9, 195, 5, 105, 201, 244, 162, 49>>
  @@
  \* 2ca931bddd5608b1 (md5, seed TeSt, step 5)
  <<44, 169, 49, 189, 221, 86, 8, 177>> :>
    <<31, 151, 226, 239, 9, 131, 55, 94, 180, 15, 118, 232, 123, 30, 255, 113, 24, 214, 39, 242>>
  @@
  \* 543fa0145cf825c5 (md5, seed TeSt, step 6)
  <<84, 63, 160, 20, 92, 248, 37, 197>> :>
    <<128, 120, 182, 187, 124, 168, 48, 251, 164, 89, 39, 194, 228, 99, 170, 191, 139, 4, 116, 75>>
  @@
  \* bb9e6ae1979d8ff4 (sha1, seed TeSt, step 0)
  <<187, 158, 106, 225, 151, 157, 143, 244>> :>
    <<43, 201, 151, 254, 220, 75, 138, 114, 74, 20, 227, 83, 135, 115, 190, 229, 2, 235, 173, 206>>
  @@
  \* 63d936639734385b (sha1, seed TeSt, step 1)
  <<99, 217, 54, 99, 151, 52, 56, 91>> :>
    <<58, 7, 20, 17, 19, 245, 123, 218, 160, 179, 59, 80, 101, 36, 249, 3, 96, 63, 1, 189>>
  @@
  \* fc2e8bfad982d176 (sha1, seed TeSt, step 2)
  <<252, 46, 139, 250, 217, 130, 209, 118>> :>
    <<85, 176, 102, 235, 61, 163, 205, 12, 237, 212, 86, 45, 230, 106, 41, 32, 160, 121, 4, 145>>
  @@
  \* 57341d182ce4c9db (sha1, seed TeSt, step 3)
  <<87, 52, 29, 24, 44, 228, 201, 219>> :>
    <<48, 74, 132, 73, 149, 3, 201, 115, 115, 230, 146, 17, 174, 182, 129, 4, 211, 218, 55, 84>>
  @@
  \* 0c2176907748b53b (sha1, seed TeSt, step 4)
  <<12, 33, 118, 144, 119, 72, 181, 59>> :>
    <<229, 120, 150, 34, 217, 77, 219, 98, 177, 104, 76, 111, 79, 84, 45, 192, 229, 203, 95, 108>>
  @@
  \* 2185dbb1a2f61996 (sha1, seed TeSt, step 5)
  <<33, 133, 219, 177, 162, 246, 25, 150>> :>
    <<150, 82, 207, 171, 120, 7, 223, 227, 222, 50, 128, 116, 34, 129, 30, 29, 46, 96, 66, 64>>
  @@
  \* 9f0d0066fec1865a (sha1, seed TeSt, step 6)
  <<159, 13, 0, 102, 254, 193, 134, 90>> :>
    <<196, 173, 140, 142, 171, 110, 129, 111, 96, 197, 164, 93, 77, 16, 61, 193, 81, 150, 114, 32>>
  @@
  \* 87066dd9644bf206 (md5, seed alpha1, step 0)
  <<135, 6, 109, 217, 100, 75, 242, 6>> :>
    <<140, 115, 160, 71, 128, 54, 19, 148, 18, 87, 114, 3, 48, 113, 178, 217, 251, 62, 82, 29>>
  @@
  \* 7cd34c1040add14b (md5, seed alpha1, step 1)
  <<124, 211, 76, 16, 64, 173, 209, 75>> :>
    <<251, 104, 149, 152, 113, 153, 210, 204, 227, 80, 156, 35, 24, 227, 51, 190, 245, 103, 22, 240>>
  @@
  \* 7dcef08b9a721ed1 (md5, seed alpha1, step 2)
  <<125, 206, 240, 139, 154, 114, 30, 209>> :>
    <<136, 86, 11, 212, 142, 51, 244, 4, 127, 39, 8, 141, 9, 178, 139, 212, 81, 181, 242, 25>>
  @@
  \* 97d60ab3b67fab44 (md5, seed alpha1, step 3)
  <<151, 214, 10, 179, 182, 127, 171, 68>> :>
    <<228, 169, 191, 192, 198, 188, 188, 0, 185, 159, 174, 6, 138, 210, 45, 245, 32, 51, 201, 96>>
  @@
  \* 89054ed826c3a9d0 (md5, seed alpha1, step 4)
  <<137, 5, 78, 216, 38, 195, 169, 208>> :>
    <<7, 177, 160, 142, 136, 14, 228, 72, 39, 163, 71, 150, 190, 188, 219, 206, 191, 38, 224, 107>>
  @@
  \* f00b44ff79b4d542 (md5, seed alpha1, step 5)
  <<240, 11, 68, 255, 121, 180, 213, 66>> :>
    <<80, 22, 240, 162, 190, 225, 27, 93, 227, 175, 97, 53, 176, 32, 76, 243, 13, 53, 219, 55>>
  @@
  \* 950baf8e95af6002 (md5, seed alpha1, step 6)
  <<149, 11, 175, 142, 149, 175, 96, 2>> :>
    <<133, 79, 249, 42, 50, 189, 105, 148, 166, 156, 145, 185, 151, 217, 104, 52, 222, 229, 161, 211>>
  @@
  \* ad85f658ebe383c9 (sha1, seed alpha1, step 0)
  <<173, 133, 246, 88, 235, 227, 131, 201>> :>
    <<66, 140, 242, 181, 117, 181, 61, 214, 88, 194, 122, 166, 238, 164, 242, 99, 51, 172, 244, 195>>
  @@
  \* d07ce229b5cf119b (sha1, seed alpha1, step 1)
  <<208, 124, 226, 41, 181, 207, 17, 155>> :>
    <<154, 126, 196, 130, 38, 162, 60, 246, 158, 49, 167, 133, 25, 81, 122, 200, 72, 141, 213, 91>>
  @@
  \* 5cb6c24c3e46f33f (sha1, seed alpha1, step 2)
  <<92, 182, 194, 76, 62, 70, 243, 63>> :>
    <<219, 4, 202, 50, 198, 194, 32, 43, 157, 2, 81, 254, 126, 181, 188, 110, 204, 224, 197, 204>>
  @@
  \* 005ee68a459c77b8 (sha1, seed alpha1, step 3)
  <<0, 94, 230, 138, 69, 156, 119, 184>> :>
    <<158, 72, 247, 114, 11, 142, 71, 86, 24, 217, 183, 45, 90, 15, 166, 174, 159, 74, 216, 218>>
  @@
  \* 8598db19f8e18151 (sha1, seed alpha1, step 4)
  <<133, 152, 219, 25, 248, 225, 129, 81>> :>
    <<21, 38, 226, 172, 72, 134, 144, 176, 7, 60, 133, 208, 210, 82, 197, 24, 242, 204, 132, 176>>
  @@
  \* cce3d6e0a855d49a (sha1, seed alpha1, step 5)
  <<204, 227, 214, 224, 168, 85, 212, 154>> :>
    <<254, 6, 142, 214, 34, 138, 234, 188, 240, 132, 142, 12, 86, 14, 71, 90, 57, 156, 109, 156>>
  @@
  \* 466d1e37e6ad8474 (sha1, seed alpha1, step 6)
  <<70, 109, 30, 55, 230, 173, 132, 116>> :>
    <<66, 199, 77, 233, 255, 230, 227, 246, 107, 200, 204, 209, 146, 124, 111, 49, 81, 157, 226, 92>>
  @@
  \* 0000000000000000
  <<0, 0, 0, 0, 0, 0, 0, 0>> :>
    <<5, 254, 64, 87, 83, 22, 111, 18, 85, 89, 231, 201, 172, 85, 134, 84, 241, 7, 199, 233>>
  @@
  \* ffffffffffffffff
  <<255, 255, 255, 255, 255, 255, 255, 255>> :>
    <<190, 103, 62, 138, 86, 234, 169, 216, 193, 211, 80, 100, 134, 103, 1, 193, 30, 248, 224, 137>>

hashlib_md5(b) == MD5_TABLE[b]

hashlib_sha1(b) == SHA1_TABLE[b]

HashInputs == DOMAIN MD5_TABLE

(***************************************************************************)
(* otp2289.generator.OTPGenerator.                                         *)
(***************************************************************************)
\* the str 'md5'
STR_md5 == <<109, 100, 53>>

\* the str 'sha1'
STR_sha1 == <<115, 104, 97, 49>>

\* byte-wise XOR of two byte strings of the same length
strxor(a, b) == [i \in 1..Len(a) |-> XorByte(a[i], b[i])]

\* RFC 2289 appendix A: the five 32-bit words of the SHA-1 digest are folded
\* into two, word0 ^ word2 ^ word4 and word1 ^ word3, each written least
\* significant byte first
sha1_digest_folding(d) ==
  LET w0 == strxor(strxor(SubSeq(d, 1, 4), SubSeq(d, 9, 12)), SubSeq(d, 17, 20))
      w1 == strxor(SubSeq(d, 5, 8), SubSeq(d, 13, 16))
  IN  Reverse(w0) \o Reverse(w1)

\* the MD5 digest folded to 64 bits: its two halves XORed
md5_digest_folding(d) == strxor(SubSeq(d, 1, 8), SubSeq(d, 9, 16))

\* the folded digests of every input of the model, computed once
MD5_FOLD_MEMO == [b \in HashInputs |-> md5_digest_folding(hashlib_md5(b))]

SHA1_FOLD_MEMO == [b \in HashInputs |-> sha1_digest_folding(hashlib_sha1(b))]

\* the 64-bit value an algorithm's hash of b is folded to
FoldHash(algo, b) ==
  IF algo = STR_md5 THEN MD5_FOLD_MEMO[b] ELSE SHA1_FOLD_MEMO[b]

validate_seed(seed) ==
  IF seed.t # "str" THEN Raise("OTPGeneratorException", "Seed must be a string")
  ELSE IF Len(seed.v) < 1 \/ Len(seed.v) > 16
    THEN Raise("OTPGeneratorException",
               "The seed MUST be of 1 to 16 characters in length")
  ELSE IF \E i \in 1..Len(seed.v) : ~IsAsciiAlnum(seed.v[i])
    THEN Raise("OTPGeneratorException",
               "The seed MUST consist of purely alphanumeric characters")
  ELSE Ok(seed.v)

\* the result is the name the server compares with 'md5' and 'sha1'; of the
\* int ids only 9 is used, which the registry does not know
validate_hash_algo(hash_algo) ==
  IF hash_algo.t \notin {"str", "int"}
    THEN Raise("OTPGeneratorException", "hash_algo must be an int or a str")
  ELSE IF hash_algo.t = "int"
    THEN Raise("OTPGeneratorException",
               "hash_algo is not among the known algorithms")
  ELSE IF hash_algo.v \in {STR_md5, STR_sha1} THEN Ok(hash_algo.v)
  ELSE Raise("OTPGeneratorException",
             "is not supported by this version of the hashlib module")

validate_step(step) ==
  IF step.t # "int" THEN Raise("OTPGeneratorException", "Step value MUST be an int")
  ELSE IF step.v[1] < 0
    THEN Raise("OTPGeneratorException", "Step value MUST be >= 0")
  ELSE Ok(step.v[1])

\* RFC 2289 section 6: the 64 bits are summed two bits at a time; the two
\* least significant bits of the sum are the checksum
RECURSIVE PairSum(_)
PairSum(bits) ==
  IF bits = <<>> THEN 0
  ELSE 2 * bits[1] + bits[2] + PairSum(SubSeq(bits, 3, Len(bits)))

checksum(bits) == PairSum(bits) % 4

\* bytes_to_tokens had it summed the bits one by one for the checksum
tokens_with_bit_count_checksum(b) ==
  LET data == BytesToBits(b)
      ones == Cardinality({i \in 1..Len(data) : data[i] = 1})
      bits == data \o IntToBits(ones % 4, 2)
      word(i) == DictWord(BitsToInt(SubSeq(bits, 11 * i - 10, 11 * i)))
  IN  <<word(1), 32, word(2), 32, word(3), 32, word(4), 32, word(5), 32, word(6)>>

\* the six words of an 8-byte value: 64 data bits and 2 checksum bits, eleven
\* bits a word, most significant first, upper case, joined by single spaces
bytes_to_tokens(b) ==
  LET bits == BytesToBits(b) \o IntToBits(checksum(BytesToBits(b)), 2)
      word(i) == DictWord(BitsToInt(SubSeq(bits, 11 * i - 10, 11 * i)))
  IN  <<word(1), 32, word(2), 32, word(3), 32, word(4), 32, word(5), 32, word(6)>>

\* the index of a whitespace-delimited word in the dictionary, -1 when it is
\* not a dictionary word; the lookup is case-insensitive
DictIndex(w) ==
  IF Len(w) = 1 /\ IsDictItem(w[1]) THEN UpperChar(w[1]) - 2097152 ELSE -1

RECURSIVE Concat(_)
Concat(ss) == IF ss = <<>> THEN <<>> ELSE Head(ss) \o Concat(Tail(ss))

tokens_to_bytes(tokens) ==
  LET words == split(tokens)
  IN  IF Len(words) # 6
        THEN Raise("OTPGeneratorException", "six words expected")
      ELSE IF \E i \in 1..6 : DictIndex(words[i]) = -1
        THEN Raise("OTPGeneratorException", "unknown word")
      ELSE LET bits == Concat([i \in 1..6 |-> IntToBits(DictIndex(words[i]), 11)])
           IN  IF checksum(SubSeq(bits, 1, 64)) # BitsToInt(SubSeq(bits, 65, 66))
                 THEN Raise("OTPGeneratorException", "checksum mismatch")
               ELSE Ok(BitsToBytes(SubSeq(bits, 1, 64)))

\* the chain of a generator: x0 folds the hash of the lower-cased seed followed
\* by the password, each further step folds the hash of the previous value
RECURSIVE Iterate(_, _, _)
Iterate(algo, x, n) ==
  IF n = 0 THEN x ELSE Iterate(algo, FoldHash(algo, x), n - 1)

\* compute_digest had every step hashed the seed and the password again
digest_of_original_material(gen, step) ==
  FoldHash(gen.hash_algo, lower(gen.seed) \o gen.password)

\* a generator is a record [password, seed, hash_algo] of validated values
compute_digest(gen, step) ==
  Iterate(gen.hash_algo, FoldHash(gen.hash_algo, lower(gen.seed) \o gen.password),
          step)

generate_otp_hexdigest(gen, step) ==
  LET v == validate_step(step)
  IN  IF v.exc # "" THEN v
      ELSE Ok(<<48, 120>> \o hexlify(compute_digest(gen, v.val)))

generate_otp_words(gen, step) ==
  LET v == validate_step(step)
  IN  IF v.exc # "" THEN v ELSE Ok(bytes_to_tokens(compute_digest(gen, v.val)))


\* <<x, Fold(Hash(x)), ...>>: x and the n values that follow it in the chain
RECURSIVE Chain(_, _, _)
Chain(algo, x, n) ==
  IF n = 0 THEN <<x>> ELSE <<x>> \o Chain(algo, FoldHash(algo, x), n - 1)

\* the range had it yielded the digests from step 0 upwards
range_in_ascending_order(gen, step) ==
  Chain(gen.hash_algo, FoldHash(gen.hash_algo, lower(gen.seed) \o gen.password),
        step)

\* the digests a range yields: those of step, step - 1, ..., 0
digest_range(gen, step) ==
  Reverse(Chain(gen.hash_algo,
                FoldHash(gen.hash_algo, lower(gen.seed) \o gen.password), step))

\* the digests in the form the range renders them in
rendered(digests, words) ==
  [i \in 1..Len(digests) |-> IF words THEN bytes_to_tokens(digests[i])
                             ELSE <<48, 120>> \o hexlify(digests[i])]

\* range_of is what validate_step did
range_of(gen, v, words) ==
  IF v.exc # "" THEN v ELSE Ok(rendered(digest_range(gen, v.val), words))

\* list(generator.hexdigest_range(step))
hexdigest_range(gen, step) == range_of(gen, validate_step(step), FALSE)

\* list(generator.words_range(step))
words_range(gen, step) == range_of(gen, validate_step(step), TRUE)

\* str(n) of an int n >= 0: its decimal digits
RECURSIVE IntToDec(_)
IntToDec(n) ==
  IF n < 10 THEN <<48 + n>> ELSE IntToDec(n \div 10) \o <<48 + (n % 10)>>

\* int(s) of a str of decimal digits
RECURSIVE DecToInt(_)
DecToInt(s) ==
  IF s = <<>> THEN 0 ELSE 10 * DecToInt(SubSeq(s, 1, Len(s) - 1)) + (s[Len(s)] - 48)

\* 'otp-'
STR_otp == <<111, 116, 112, 45>>

\* the (hash_algo, step, seed) of a challenge 'otp-<algo> <step> <seed>', the
\* three separated by whitespace of any length
parse_challenge(challenge) ==
  IF challenge.t # "str" THEN Raise("OTPChallengeException", "Challenge must be str")
  ELSE LET words == split(challenge.v)
       IN  IF \/ Len(words) # 3
              \/ ~startswith(words[1], STR_otp)
              \/ SubSeq(words[1], 5, Len(words[1])) \notin {STR_md5, STR_sha1}
              \/ \E i \in 1..Len(words[2]) : words[2][i] \notin 48..57
             THEN Raise("OTPChallengeException", "Invalid challenge")
           ELSE Ok(<<SubSeq(words[1], 5, Len(words[1])), DecToInt(words[2]),
                     words[3]>>)

\* the answer of the holder of password to a challenge: the hex digest of a
\* generator of the challenge's seed and algorithm, at the challenge's step
generate_otp_hexdigest_from_challenge(password, challenge) ==
  LET c == parse_challenge(challenge)
  IN  IF c.exc # "" THEN c
      ELSE LET vseed == validate_seed(PyStr(c.val[3]))
           IN  IF vseed.exc # "" THEN vseed
               ELSE generate_otp_hexdigest(
                      [password |-> password, seed |-> vseed.val,
                       hash_algo |-> c.val[1]],
                      PyInt(c.val[2]))
\* str.encode(): the UTF-8 bytes of a str of code points below U+0800
RECURSIVE encode(_)
encode(s) ==
  IF s = <<>> THEN <<>>
  ELSE (IF Head(s) < 128 THEN <<Head(s)>>
        ELSE <<192 + (Head(s) \div 64), 128 + (Head(s) % 64)>>) \o encode(Tail(s))

\* OTPGenerator(password, seed, hash_algo): Ok(<<generator>>) or what the
\* constructor raises
OTPGenerator_init(password, seed, hash_algo) ==
  IF password.t # "bytes"
    THEN Raise("OTPGeneratorException", "Password must be a byte-string")
  ELSE IF Len(password.v) <= 10
    THEN Raise("OTPGeneratorException", "Password must be longer than 10 bytes")
  ELSE IF validate_seed(seed).exc # "" THEN validate_seed(seed)
  ELSE IF validate_hash_algo(hash_algo).exc # "" THEN validate_hash_algo(hash_algo)
  ELSE Ok(<<[password |-> password.v, seed |-> validate_seed(seed).val,
             hash_algo |-> validate_hash_algo(hash_algo).val]>>)

\* generator.generate_otp_words(step) or generator.generate_otp_hexdigest(step)
generate_otp(gen, step, words) ==
  IF words THEN generate_otp_words(gen, step) ELSE generate_otp_hexdigest(gen, step)

\* generate_otp_words_from_challenge or generate_otp_hexdigest_from_challenge
\* of a generator: the answer of a transient generator of the generator's
\* password and of the challenge's seed and algorithm, at the challenge's step
generate_otp_from_challenge(gen, challenge, words) ==
  LET c == parse_challenge(challenge)
  IN  IF c.exc # "" THEN c
      ELSE IF validate_seed(PyStr(c.val[3])).exc # ""
        THEN validate_seed(PyStr(c.val[3]))
      ELSE generate_otp([password |-> gen.password,
                         seed |-> validate_seed(PyStr(c.val[3])).val,
                         hash_algo |-> c.val[1]],
                        PyInt(c.val[2]), words)

(***************************************************************************)
(* The values the calls of the model are made with.                        *)
(***************************************************************************)
\* b'This is a test.'
PASSWORD == <<84, 104, 105, 115, 32, 105, 115, 32, 97, 32, 116, 101, 115, 116, 46>>

\* 'TeSt'
SEED == <<84, 101, 83, 116>>

Algos == {STR_md5, STR_sha1}

\* b'AbCdEfGhIjK' and 'alpha1'
PASSWORD_2 == <<65, 98, 67, 100, 69, 102, 71, 104, 73, 106, 75>>

SEED_2 == <<97, 108, 112, 104, 97, 49>>

\* the generators of RFC-2289 Appendix C
Generators ==
  {[password |-> PASSWORD, seed |-> SEED, hash_algo |-> a] : a \in Algos}
  \cup {[password |-> PASSWORD_2, seed |-> SEED_2, hash_algo |-> a] : a \in Algos}

Gen(algo) == [password |-> PASSWORD, seed |-> SEED, hash_algo |-> algo]

\* 'sgs'
KEY_sgs == PyStr(<<115, 103, 115>>)

\* 'blackmore'
KEY_blackmore == PyStr(<<98, 108, 97, 99, 107, 109, 111, 114, 101>>)

Keys == {KEY_sgs, KEY_blackmore}

\* a key that is not a str
KeyArgs == Keys \cup {PyInt(7)}

\* 'bla'
BLA == <<98, 108, 97>>

\* sixteen times U+00E9
NON_ASCII == [i \in 1..16 |-> 233]

\* the generator's answers for a step, in the hex and in the six-word form
HexOf(algo, n) == generate_otp_hexdigest(Gen(algo), PyInt(n)).val

WordsOf(algo, n) == generate_otp_words(Gen(algo), PyInt(n)).val

\* s with its last item replaced by c
WithLast(s, c) == [s EXCEPT ![Len(s)] = c]

\* responses in the forms the server documents: '0x' and 16 hex digits, six
\* words in upper case and in lower case; for MD5 also the 16 hex digits
\* alone, in lower case and in upper case, and '0X...' hex digits in upper case
\* after a lower-case '0x'
DocumentedResponses ==
  {PyStr(HexOf(a, n)) : a \in Algos, n \in 0..1}
  \cup {PyStr(WordsOf(a, 0)) : a \in Algos}
  \cup {PyStr(lower(WordsOf(STR_md5, 0))),
        PyStr(SubSeq(HexOf(STR_md5, 0), 3, 18)),
        PyStr(upper(SubSeq(HexOf(STR_md5, 0), 3, 18))),
        PyStr(<<48, 120>> \o upper(SubSeq(HexOf(STR_md5, 0), 3, 18)))}

\* '0x 9e876134d90499dd ': blanks around the 16 hex digits after '0x'
PADDED_HEX == <<48, 120, 32>> \o SubSeq(HexOf(STR_md5, 0), 3, 18) \o <<32>>

\* responses that are neither six dictionary words with a matching checksum
\* nor 16 hex digits: 'bla', sixteen non-ASCII letters, six words of which the
\* last is off by one (wrong checksum), six words of which the last is 'XXXX',
\* the first five words only, sixteen 'z', fifteen hex digits, and the padded
\* hex above
OtherResponses ==
  {PyStr(BLA), PyStr(NON_ASCII),
   PyStr(WithLast(WordsOf(STR_md5, 0), DictWord(1909))),
   PyStr(SubSeq(WordsOf(STR_md5, 0), 1, 10) \o <<88, 88, 88, 88>>),
   PyStr(SubSeq(WordsOf(STR_md5, 0), 1, 9)),
   PyStr([i \in 1..16 |-> 122]),
   PyStr(SubSeq(HexOf(STR_md5, 0), 3, 17)),
   PyStr(PADDED_HEX)}

StateResponses == DocumentedResponses \cup OtherResponses

\* the (ot_hex, current_step) a caller constructs a state with to work on it
\* directly: None at step 0 and at step 1, and the hex digest of step 1 of the
\* generator of the state's algorithm at step 1,
\* and the hex digest of step 2 at step 1
StateArgs(algo) ==
  {<<PyNone, PyInt(0)>>, <<PyNone, PyInt(1)>>, <<PyStr(HexOf(algo, 1)), PyInt(1)>>,
   <<PyStr(HexOf(algo, 2)), PyInt(1)>>}

\* what the store is called with: the MD5 generator's hex digests of the
\* steps below the provisioned one, and 'bla'
StoreResponses ==
  {PyStr(generate_otp_hexdigest(Gen(STR_md5), PyInt(n)).val) : n \in 0..(MaxStep - 1)}
  \cup {PyStr(BLA)}

\* the states the store is provisioned with: ot_hex is None or the MD5
\* generator's hex digest of step MaxStep
StoreOtHexArgs ==
  {PyNone, PyStr(generate_otp_hexdigest(Gen(STR_md5), PyInt(MaxStep)).val)}

\* -1, 0 and MaxStep
StoreStepArgs == {PyInt(0 - 1), PyInt(0), PyInt(MaxStep)}

Responses == StoreResponses \cup StateResponses

(***************************************************************************)
(* otp2289.server.OTPState.  An object is a record of its attributes.      *)
(***************************************************************************)
\* the bytes of what is left of ot_hex after the removal of '0x'
hex_to_bytes(s) ==
  \* a str with dictionary words in it is either not 16 characters long or
  \* has a blank among its 16 characters
  IF (\E i \in 1..Len(s) : IsDictItem(s[i])) \/ Len(s) # 16
    THEN Raise("OTPStateException",
               "The length of the hex should be 16 (representing 64 bits digest)")
  ELSE IF unhexlify(s).exc = "binascii.Error"
    THEN Raise("OTPStateException", "Invalid OT-hex")
  ELSE unhexlify(s)

\* validate_hex had it left a leading '0x' in place
validate_hex_keeping_prefix(ot_hex) ==
  IF ot_hex.t # "str" THEN Raise("OTPStateException", "OT-hex must be a str")
  ELSE hex_to_bytes(ot_hex.v)

validate_hex(ot_hex) ==
  IF ot_hex.t # "str" THEN Raise("OTPStateException", "OT-hex must be a str")
  ELSE hex_to_bytes(IF startswith(ot_hex.v, <<48, 120>>)
                      THEN lower(strip(SubSeq(ot_hex.v, 3, Len(ot_hex.v))))
                      ELSE ot_hex.v)

\* the second attempt of response_to_bytes: h is what validate_hex did
hex_or_invalid(h) ==
  IF h.exc = "OTPStateException"
    THEN Raise("OTPInvalidResponse", "The response is neither a valid token or hex")
    ELSE h

\* t is what tokens_to_bytes did with the response
tokens_or_hex(response, t) ==
  IF t.exc # "OTPGeneratorException" THEN t
  ELSE hex_or_invalid(validate_hex(response))

response_to_bytes(response) ==
  tokens_or_hex(response, tokens_to_bytes(response.v))

\* response_to_bytes of every response of the model, computed once
RESPONSE_BYTES_MEMO == [r \in Responses |-> response_to_bytes(r)]

\* the 8-byte values of the model
Digests == {b \in HashInputs : Len(b) = 8}

\* hexlify and validate_hex on the 8-byte values of the model, computed once
HEXLIFY_MEMO == [b \in Digests |-> hexlify(b)]

VALIDATE_HEX_MEMO ==
  [h \in {PyStr(hexlify(b)) : b \in Digests} \cup StoreOtHexArgs
       \cup {PyStr(HexOf(a, n)) : a \in Algos, n \in 1..2}
     |-> validate_hex(h)]

validate_hex_of(ot_hex) ==
  IF ot_hex \in DOMAIN VALIDATE_HEX_MEMO
    THEN VALIDATE_HEX_MEMO[ot_hex] ELSE validate_hex(ot_hex)

\* a new object
NewState(seed, hash_algo, step, digest) ==
  [seed |-> seed, hash_algo |-> hash_algo, step |-> step,
   current_digest |-> digest, new_digest_hex |-> PyNone]

\* the object with the digest that validate_hex returned as h, or h raised
with_digest(seed, hash_algo, step, h) ==
  IF h.exc # "" THEN h ELSE Ok(<<NewState(seed, hash_algo, step, PyBytes(h.val))>>)

\* OTPState.__init__ after the three validators have run
init_validated(ot_hex, vseed, valgo, vstep) ==
  IF vseed.exc = "OTPGeneratorException"
    THEN Raise("OTPStateException", vseed.msg)
  ELSE IF valgo.exc = "OTPGeneratorException"
    THEN Raise("OTPStateException", valgo.msg)
  ELSE IF vstep.exc = "OTPGeneratorException"
    THEN Raise("OTPStateException", vstep.msg)
  ELSE IF ot_hex.t = "NoneType"
    THEN Ok(<<NewState(vseed.val, valgo.val, vstep.val, PyNone)>>)
  ELSE with_digest(vseed.val, valgo.val, vstep.val, validate_hex_of(ot_hex))

\* OTPState.__init__ had it kept the step without validating it
init_without_step_validation(ot_hex, current_step, seed, hash_algo) ==
  init_validated(ot_hex, validate_seed(seed), validate_hash_algo(hash_algo),
                 Ok(current_step.v[1]))

OTPState_init(ot_hex, current_step, seed, hash_algo) ==
  init_validated(ot_hex, validate_seed(seed), validate_hash_algo(hash_algo),
                 validate_step(current_step))

\* challenge_string had it ended with the seed
challenge_without_terminator(self) ==
  STR_otp \o self.hash_algo \o <<32>> \o IntToDec(self.step) \o <<32>>
    \o self.seed

\* f'otp-{hash_algo} {step} {seed} '
challenge_string(self) ==
  STR_otp \o self.hash_algo \o <<32>> \o IntToDec(self.step) \o <<32>>
    \o self.seed \o <<32>>

\* response_validates had it stored every valid response, asked to or not
store_regardless_of_request(self, response_bytes, store_valid_response) ==
  [self EXCEPT !.new_digest_hex = PyStr(HEXLIFY_MEMO[response_bytes])]

\* response_validates had it put a valid response in the place of the
\* expected digest as well
store_as_current_digest(self, response_bytes, store_valid_response) ==
  IF store_valid_response
    THEN [self EXCEPT !.new_digest_hex = PyStr(HEXLIFY_MEMO[response_bytes]),
                      !.current_digest = PyBytes(response_bytes)]
    ELSE self

\* response_validates had it kept the first valid response it stored
store_first_response_only(self, response_bytes, store_valid_response) ==
  IF store_valid_response /\ self.new_digest_hex.t = "NoneType"
    THEN [self EXCEPT !.new_digest_hex = PyStr(HEXLIFY_MEMO[response_bytes])]
    ELSE self

\* the object a successful validation leaves behind
StoreResponse(self, response_bytes, store_valid_response) ==
  IF store_valid_response
    THEN [self EXCEPT !.new_digest_hex = PyStr(HEXLIFY_MEMO[response_bytes])]
    ELSE self

\* [res, self]: True, and the object with the response stored on request
accepted(self, response_bytes, store_valid_response) ==
  [res |-> Ok(<<TRUE>>),
   self |-> StoreResponse(self, response_bytes, store_valid_response)]

refused(self) == [res |-> Ok(<<FALSE>>), self |-> self]

\* response_validates had its SHA-1 branch lacked the test for a state
\* without a digest; rb is what response_to_bytes did
sha1_without_bootstrap(self, rb, store_valid_response) ==
  IF rb.exc # "" THEN [res |-> rb, self |-> self]
  ELSE IF self.hash_algo = STR_md5
    THEN IF \/ self.current_digest.t = "NoneType"
            \/ MD5_FOLD_MEMO[rb.val] = self.current_digest.v
           THEN accepted(self, rb.val, store_valid_response) ELSE refused(self)
  ELSE IF /\ self.current_digest.t # "NoneType"
          /\ SHA1_FOLD_MEMO[rb.val] = self.current_digest.v
    THEN accepted(self, rb.val, store_valid_response) ELSE refused(self)

validates_without_sha1_bootstrap(self, response, store_valid_response) ==
  sha1_without_bootstrap(self, RESPONSE_BYTES_MEMO[response], store_valid_response)

\* response_validates had it folded every digest the MD5 way
md5_fold_only(self, rb, store_valid_response) ==
  IF rb.exc # "" THEN [res |-> rb, self |-> self]
  ELSE IF \/ self.current_digest.t = "NoneType"
          \/ MD5_FOLD_MEMO[rb.val] = self.current_digest.v
    THEN accepted(self, rb.val, store_valid_response) ELSE refused(self)

validates_with_md5_fold_only(self, response, store_valid_response) ==
  md5_fold_only(self, RESPONSE_BYTES_MEMO[response], store_valid_response)

\* response_validates had it compared nothing with the expected digest
validates_without_comparison(self, rb, store_valid_response) ==
  IF rb.exc # "" THEN [res |-> rb, self |-> self]
  ELSE accepted(self, rb.val, store_valid_response)

\* response_validates after response_to_bytes, which did rb
validates_bytes(self, rb, store_valid_response) ==
  IF rb.exc # "" THEN [res |-> rb, self |-> self]
  ELSE IF self.hash_algo = STR_md5
    THEN IF \/ self.current_digest.t = "NoneType"
            \/ MD5_FOLD_MEMO[rb.val] = self.current_digest.v
           THEN accepted(self, rb.val, store_valid_response) ELSE refused(self)
  ELSE IF self.hash_algo = STR_sha1
    THEN IF \/ self.current_digest.t = "NoneType"
            \/ SHA1_FOLD_MEMO[rb.val] = self.current_digest.v
           THEN accepted(self, rb.val, store_valid_response) ELSE refused(self)
  ELSE [res |-> Raise("OTPInvalidResponse", "Ivalid hash_algo"), self |-> self]

\* [res, self]: what the call returns or raises, and the object after it
OTPState_response_validates(self, response, store_valid_response) ==
  validates_bytes(self, RESPONSE_BYTES_MEMO[response], store_valid_response)

\* get_next_state had it passed the step on unchanged
next_state_at_same_step(self) ==
  IF self.new_digest_hex.t = "NoneType" THEN Ok(<<>>)
  ELSE OTPState_init(self.new_digest_hex, PyInt(self.step),
                     PyStr(self.seed), PyStr(self.hash_algo))

\* get_next_state had it left the digest of the next state out
next_state_without_digest(self) ==
  IF self.new_digest_hex.t = "NoneType" THEN Ok(<<>>)
  ELSE OTPState_init(PyNone, PyInt(self.step - 1),
                     PyStr(self.seed), PyStr(self.hash_algo))

\* Ok(<<>>) is None, Ok(<<o>>) the new object o
get_next_state(self) ==
  IF self.new_digest_hex.t = "NoneType" THEN Ok(<<>>)
  ELSE OTPState_init(self.new_digest_hex, PyInt(self.step - 1),
                     PyStr(self.seed), PyStr(self.hash_algo))

validated(self) ==
  self.new_digest_hex.t # "NoneType" /\ self.new_digest_hex.v # <<>>

(***************************************************************************)
(* otp2289.server.OTPStore.  heap is the sequence of the OTPState objects  *)
(* constructed so far; an object is known by its index in heap, which is   *)
(* its identity (OTPState defines neither __eq__ nor __hash__).  data is    *)
(* the dict _data (key -> object), states the dict _states (object -> key). *)
(* last is the most recent call: its name, its arguments, the object it    *)
(* looked up or was made on (0 when there is none) and what it returned or *)
(* raised.  run is a history variable: run[k] is the set of the 8-byte     *)
(* values for which store.response_validates(k, ., True) has returned True *)
(* since key k was last bound or removed by add_state or pop_state.        *)
(* frame is the position and the local variables of a call of              *)
(* OTPStore.response_validates that is followed statement by statement;    *)
(* its line is 0 when there is no such call.                               *)
(***************************************************************************)
VARIABLES heap, data, states, last, run, frame

vars == <<heap, data, states, last, run, frame>>

PyObj(id) == [t |-> "OTPState", v |-> <<id>>]

\* d[k] = v
DictSet(d, k, v) == [x \in DOMAIN d \cup {k} |-> IF x = k THEN v ELSE d[x]]

\* d without k
DictDel(d, k) == [x \in DOMAIN d \ {k} |-> d[x]]

EmptyDict == [x \in {} |-> 0]

\* [res, data, states]
add_state(d, s, key, state) ==
  IF key.t # "str"
    THEN [res |-> Raise("OTPStoreException", "key must be a str"),
          data |-> d, states |-> s]
  ELSE IF state.t # "OTPState"
    THEN [res |-> Raise("OTPStoreException", "state must be an OTPState-object"),
          data |-> d, states |-> s]
  ELSE [res |-> Ok(<<>>),
        data |-> DictSet(d, key, state.v[1]),
        states |-> DictSet(s, state.v[1], key)]

\* [res, data, states]
pop_state(d, s, key) ==
  IF key.t # "str"
    THEN [res |-> Raise("OTPStoreException", "key must be a str"),
          data |-> d, states |-> s]
  ELSE IF key \notin DOMAIN d
    THEN [res |-> Raise("KeyError", "key"), data |-> d, states |-> s]
  ELSE IF d[key] \notin DOMAIN s
    THEN [res |-> Raise("KeyError", "state"),
          data |-> DictDel(d, key), states |-> s]
  ELSE [res |-> Ok(<<d[key]>>),
        data |-> DictDel(d, key), states |-> DictDel(s, d[key])]

\* the advance had it left the old state in _states
keep_old_state(h, d, s, state, rvalue) ==
  [res |-> rvalue, heap |-> h, data |-> d, states |-> s]

\* the last statement of the advance: self._states.pop(state)
pop_old_state(h, d, s, state, rvalue) ==
  IF state \notin DOMAIN s
    THEN [res |-> Raise("KeyError", "state"), heap |-> h, data |-> d, states |-> s]
    ELSE [res |-> rvalue, heap |-> h, data |-> d, states |-> DictDel(s, state)]

\* the advance: next is what state.get_next_state() did, the new object gets
\* the next index of the heap
rebind(h, d, s, key, state, rvalue, next) ==
  IF next.exc # ""
    THEN [res |-> next, heap |-> h, data |-> d, states |-> s]
    ELSE pop_old_state(Append(h, next.val[1]), DictSet(d, key, Len(h) + 1),
                       DictSet(s, Len(h) + 1, key), state, rvalue)

\* what follows state.response_validates, which did rv on the object state
after_validation(h, d, s, key, state, rv, store_valid_response) ==
  IF rv.res.exc = "" /\ rv.res.val[1] /\ store_valid_response
    THEN rebind([h EXCEPT ![state] = rv.self], d, s, key, state, rv.res,
                get_next_state(rv.self))
    ELSE [res |-> rv.res, heap |-> [h EXCEPT ![state] = rv.self],
          data |-> d, states |-> s]

\* what follows a validation had the key been left bound to the old state
without_rebinding(h, d, s, state, rv) ==
  [res |-> rv.res, heap |-> [h EXCEPT ![state] = rv.self], data |-> d, states |-> s]

\* OTPStore.response_validates had it left the key bound to the old state
validates_without_rebinding(h, d, s, key, response, store_valid_response) ==
  IF key \notin DOMAIN d
    THEN [res |-> Raise("KeyError", "key"), heap |-> h, data |-> d, states |-> s]
    ELSE without_rebinding(h, d, s, d[key],
           OTPState_response_validates(h[d[key]], response, store_valid_response))

\* [res, heap, data, states]
OTPStore_response_validates(h, d, s, key, response, store_valid_response) ==
  IF key \notin DOMAIN d
    THEN [res |-> Raise("KeyError", "key"), heap |-> h, data |-> d, states |-> s]
    ELSE after_validation(h, d, s, key, d[key],
           OTPState_response_validates(h[d[key]], response, store_valid_response),
           store_valid_response)

\* to_dict had it written the step the next state will have
to_dict_with_next_step(self) ==
  [ot_hex |-> IF self.current_digest.t = "NoneType" THEN PyNone
              ELSE PyStr(hexlify(self.current_digest.v)),
   current_step |-> PyInt(self.step - 1),
   seed |-> PyStr(self.seed),
   hash_algo |-> PyStr(self.hash_algo)]

\* OTPState.to_dict: the dict with the keys 'ot_hex', 'current_step', 'seed'
\* and 'hash_algo', as a record of Python values
OTPState_to_dict(self) ==
  [ot_hex |-> IF self.current_digest.t = "NoneType" THEN PyNone
              ELSE PyStr(hexlify(self.current_digest.v)),
   current_step |-> PyInt(self.step),
   seed |-> PyStr(self.seed),
   hash_algo |-> PyStr(self.hash_algo)]

\* OTPState.from_dict: cls(**dict_obj)
from_dict(dict_obj) ==
  OTPState_init(dict_obj.ot_hex, dict_obj.current_step, dict_obj.seed,
                dict_obj.hash_algo)

\* OTPStore.to_dict: key -> state.to_dict()
OTPStore_to_dict(h, d) == [key \in DOMAIN d |-> OTPState_to_dict(h[d[key]])]

\* OTPStore._add_data: for every item of dict_obj, in some order,
\* self.add_state(key, OTPState(**state_dict)); [res, heap, data, states]
RECURSIVE add_data(_, _, _, _)

\* what follows add_state, which did added, for the items that are left
add_data_after_add(h, added, rest) ==
  IF added.res.exc # ""
    THEN [res |-> added.res, heap |-> h, data |-> added.data, states |-> added.states]
    ELSE add_data(h, added.data, added.states, rest)

\* what follows OTPState(**state_dict), which did state
add_data_item(h, d, s, key, state, rest) ==
  IF state.exc # ""
    THEN [res |-> state, heap |-> h, data |-> d, states |-> s]
    ELSE add_data_after_add(Append(h, state.val[1]),
                            add_state(d, s, key, PyObj(Len(h) + 1)), rest)

\* the item the loop takes next
first_key(dict_obj) == CHOOSE key \in DOMAIN dict_obj : TRUE

add_data(h, d, s, dict_obj) ==
  IF DOMAIN dict_obj = {}
    THEN [res |-> Ok(<<>>), heap |-> h, data |-> d, states |-> s]
    ELSE add_data_item(h, d, s, first_key(dict_obj),
                       from_dict(dict_obj[first_key(dict_obj)]),
                       DictDel(dict_obj, first_key(dict_obj)))

\* OTPStore(data) for a dict data: a store of its own, with its own objects
OTPStore_init(dict_obj) == add_data(<<>>, EmptyDict, EmptyDict, dict_obj)
(***************************************************************************)
(* The calls.  Every action is one whole call, made by a single caller.    *)
(***************************************************************************)
IsTrue(res) == res.exc = "" /\ res.val = <<TRUE>>

IsFalse(res) == res.exc = "" /\ res.val = <<FALSE>>

\* no call is followed statement by statement
NoFrame ==
  [line |-> 0, key |-> PyNone, response |-> PyNone, state |-> 0,
   rvalue |-> Ok(<<>>), next_state |-> 0]

Init ==
  /\ heap = <<>>
  /\ data = EmptyDict
  /\ states = EmptyDict
  /\ last = [op |-> "OTPStore", args |-> <<>>, state |-> 0, res |-> Ok(<<>>)]
  /\ run = [k \in Keys |-> {}]
  /\ frame = NoFrame

\* OTPState(ot_hex, current_step, seed, hash_algo), while the caller has
\* constructed fewer than MaxNew states
NewOTPState(ot_hex, current_step, seed, hash_algo) ==
  LET r == OTPState_init(ot_hex, current_step, seed, hash_algo)
  IN  /\ Len(heap) < MaxNew
      /\ heap' = IF r.exc = "" THEN Append(heap, r.val[1]) ELSE heap
      /\ last' = [op |-> "OTPState",
                  args |-> <<ot_hex, current_step, seed, hash_algo>>,
                  state |-> IF r.exc = "" THEN Len(heap) + 1 ELSE 0,
                  res |-> IF r.exc = "" THEN Ok(<<>>) ELSE r]
      /\ UNCHANGED <<data, states, run, frame>>

\* store.add_state(key, state)
AddState(key, state) ==
  LET r == add_state(data, states, key, state)
  IN  /\ data' = r.data
      /\ states' = r.states
      /\ last' = [op |-> "add_state", args |-> <<key, state>>, state |-> 0,
                  res |-> r.res]
      /\ run' = IF r.res.exc = "" THEN [run EXCEPT ![key] = {}] ELSE run
      /\ UNCHANGED <<heap, frame>>

\* store.pop_state(key)
PopState(key) ==
  LET r == pop_state(data, states, key)
  IN  /\ data' = r.data
      /\ states' = r.states
      /\ last' = [op |-> "pop_state", args |-> <<key>>,
                  state |-> IF key \in DOMAIN data THEN data[key] ELSE 0,
                  res |-> r.res]
      /\ run' = IF key \in DOMAIN data THEN [run EXCEPT ![key] = {}] ELSE run
      /\ UNCHANGED <<heap, frame>>

\* store.response_validates(key, response, store_valid_response)
StoreResponseValidates(key, response, store_valid_response) ==
  LET r == OTPStore_response_validates(heap, data, states, key, response,
                                       store_valid_response)
  IN  /\ Len(r.heap) <= MaxObjs
      /\ heap' = r.heap
      /\ data' = r.data
      /\ states' = r.states
      /\ last' = [op |-> "store.response_validates",
                  args |-> <<key, response, store_valid_response>>,
                  state |-> IF key \in DOMAIN data THEN data[key] ELSE 0,
                  res |-> r.res]
      /\ run' = IF IsTrue(r.res) /\ store_valid_response
                  THEN [run EXCEPT ![key] = @ \cup {RESPONSE_BYTES_MEMO[response].val}]
                  ELSE run
      /\ UNCHANGED frame

\* state.response_validates(response, store_valid_response) on an object the
\* caller holds
StateResponseValidates(id, response, store_valid_response) ==
  LET r == OTPState_response_validates(heap[id], response, store_valid_response)
  IN  /\ heap' = [heap EXCEPT ![id] = r.self]
      /\ last' = [op |-> "state.response_validates",
                  args |-> <<response, store_valid_response>>,
                  state |-> id, res |-> r.res]
      /\ UNCHANGED <<data, states, run, frame>>

\* state.get_next_state() on an object the caller holds
GetNextState(id) ==
  LET r == get_next_state(heap[id])
      new == r.exc = "" /\ r.val # <<>>
  IN  /\ new => Len(heap) < MaxObjs
      /\ heap' = IF new THEN Append(heap, r.val[1]) ELSE heap
      /\ last' = [op |-> "get_next_state", args |-> <<>>, state |-> id,
                  res |-> IF new THEN Ok(<<Len(heap) + 1>>) ELSE r]
      /\ UNCHANGED <<data, states, run, frame>>

\* store.to_dict()
ToDict ==
  /\ last' = [op |-> "store.to_dict", args |-> <<>>, state |-> 0,
              res |-> Ok(<<OTPStore_to_dict(heap, data)>>)]
  /\ UNCHANGED <<heap, data, states, run, frame>>

\* the holder of PASSWORD answers the challenge of a state
AnswerChallenge(id) ==
  /\ last' = [op |-> "generate_otp_hexdigest_from_challenge",
              args |-> <<PyStr(challenge_string(heap[id]))>>, state |-> id,
              res |-> generate_otp_hexdigest_from_challenge(
                        PASSWORD, PyStr(challenge_string(heap[id])))]
  /\ UNCHANGED <<heap, data, states, run, frame>>

\* generator.compute_digest(step) of a generator gen
ComputeDigest(gen, step) ==
  /\ last' = [op |-> "compute_digest",
              args |-> <<PyBytes(gen.password), PyStr(gen.seed),
                         PyStr(gen.hash_algo), PyInt(step)>>,
              state |-> 0, res |-> Ok(compute_digest(gen, step))]
  /\ UNCHANGED <<heap, data, states, run, frame>>

\* generator.generate_otp_hexdigest(step), generator.generate_otp_words(step)
GenerateOtp(gen, step, words) ==
  /\ last' = [op |-> IF words THEN "generate_otp_words"
                     ELSE "generate_otp_hexdigest",
              args |-> <<PyBytes(gen.password), PyStr(gen.seed),
                         PyStr(gen.hash_algo), step>>,
              state |-> 0,
              res |-> IF words THEN generate_otp_words(gen, step)
                      ELSE generate_otp_hexdigest(gen, step)]
  /\ UNCHANGED <<heap, data, states, run, frame>>

\* list(generator.hexdigest_range(step)), list(generator.words_range(step))
DigestRange(gen, step, words) ==
  /\ last' = [op |-> IF words THEN "words_range" ELSE "hexdigest_range",
              args |-> <<PyBytes(gen.password), PyStr(gen.seed),
                         PyStr(gen.hash_algo), step>>,
              state |-> 0,
              res |-> IF words THEN words_range(gen, step)
                      ELSE hexdigest_range(gen, step)]
  /\ UNCHANGED <<heap, data, states, run, frame>>

\* OTPGenerator.bytes_to_tokens(b)
BytesToTokens(b) ==
  /\ last' = [op |-> "bytes_to_tokens", args |-> <<PyBytes(b)>>, state |-> 0,
              res |-> Ok(bytes_to_tokens(b))]
  /\ UNCHANGED <<heap, data, states, run, frame>>

\* OTPGenerator.tokens_to_bytes(tokens)
TokensToBytes(tokens) ==
  /\ last' = [op |-> "tokens_to_bytes", args |-> <<PyStr(tokens)>>, state |-> 0,
              res |-> tokens_to_bytes(tokens)]
  /\ UNCHANGED <<heap, data, states, run, frame>>

(***************************************************************************)
(* Spec: a caller that provisions states and works on the store.           *)
(***************************************************************************)
Next ==
  \/ \E o \in StoreOtHexArgs, n \in StoreStepArgs :
       NewOTPState(o, n, PyStr(SEED), PyStr(STR_md5))
  \/ \E k \in Keys, id \in 1..Len(heap) : AddState(k, PyObj(id))
  \/ AddState(KEY_sgs, PyNone)
  \/ \E id \in 1..Len(heap) : AddState(PyInt(7), PyObj(id))
  \/ \E k \in KeyArgs : PopState(k)
  \/ \E k \in Keys, r \in StoreResponses, f \in BOOLEAN :
       StoreResponseValidates(k, r, f)
  \/ ToDict

Spec == Init /\ [][Next]_vars
\* what validate_hex is called with directly: the 16 hex digits of the MD5
\* digest of step 1 alone and after '0x', in lower and in upper case, '0X' and
\* the digits, '0x 9e876134d90499dd ', a blank before '0x...', a hex with a
\* 't' in it, sixteen times U+00E9, fifteen hex digits, the bytes of a hex,
\* the int 5 and None
ValidateHexArgs ==
  {PyStr(HexOf(STR_md5, 1)),
   PyStr(SubSeq(HexOf(STR_md5, 1), 3, 18)),
   PyStr(upper(SubSeq(HexOf(STR_md5, 1), 3, 18))),
   PyStr(<<48, 120>> \o upper(SubSeq(HexOf(STR_md5, 1), 3, 18))),
   PyStr(upper(HexOf(STR_md5, 1))),
   PyStr(PADDED_HEX),
   PyStr(<<32>> \o HexOf(STR_md5, 1)),
   PyStr(WithLast(HexOf(STR_md5, 1), 116)),
   PyStr(NON_ASCII),
   PyStr(SubSeq(HexOf(STR_md5, 1), 3, 17)),
   PyBytes(HexOf(STR_md5, 1)),
   PyInt(5),
   PyNone}

\* OTPState.validate_hex(ot_hex), called as the static method it is
ValidateHex(ot_hex) ==
  /\ last' = [op |-> "validate_hex", args |-> <<ot_hex>>, state |-> 0,
              res |-> validate_hex(ot_hex)]
  /\ UNCHANGED <<heap, data, states, run, frame>>

\* state.response_to_bytes(response): the state itself is not read
ResponseToBytes(response) ==
  /\ last' = [op |-> "response_to_bytes", args |-> <<response>>, state |-> 0,
              res |-> RESPONSE_BYTES_MEMO[response]]
  /\ UNCHANGED <<heap, data, states, run, frame>>


(***************************************************************************)
(* SpecState: a caller that constructs a state of either algorithm and     *)
(* works on it, and on its next states, directly and through a store with  *)
(* a single key, while at most MaxHeld objects are allocated.              *)
(***************************************************************************)
NextState ==
  \/ \E a \in Algos : \E on \in StateArgs(a) :
       NewOTPState(on[1], on[2], PyStr(SEED), PyStr(a))
  \/ \E id \in 1..Len(heap), r \in StateResponses, f \in BOOLEAN :
       StateResponseValidates(id, r, f)
  \/ \E id \in 1..Len(heap) : GetNextState(id) /\ Len(heap') <= MaxHeld
  \/ \E id \in 1..Len(heap) : AnswerChallenge(id)
  \/ \E id \in 1..Len(heap) : AddState(KEY_sgs, PyObj(id))
  \/ \E r \in StateResponses :
       StoreResponseValidates(KEY_sgs, r, TRUE) /\ Len(heap') <= MaxHeld

SpecState == Init /\ [][NextState]_vars

(***************************************************************************)
(* SpecGen: a caller of the generator and of the word codec.  The codec is *)
(* given the 8-byte values of the model, and decodes what it has encoded   *)
(* and the six-word responses of the model.                                *)
(***************************************************************************)
NextGen ==
  \/ \E gen \in Generators, n \in 0..MaxChain : ComputeDigest(gen, n)
  \/ \E gen \in Generators, n \in (0 - 1)..MaxChain, w \in BOOLEAN :
       GenerateOtp(gen, PyInt(n), w)
  \/ \E gen \in Generators, n \in (0 - 1)..MaxChain, w \in BOOLEAN :
       DigestRange(gen, PyInt(n), w)
  \/ \E b \in Digests : BytesToTokens(b)
  \/ last.op = "bytes_to_tokens" /\ TokensToBytes(last.res.val)
  \/ \E r \in StateResponses : TokensToBytes(r.v)

SpecGen == Init /\ [][NextGen]_vars

(***************************************************************************)
(* Properties of the store, checked under Spec.                            *)
(***************************************************************************)
StoreCall(l) == l.op = "store.response_validates"

\* C1: the forward map (key -> state) and the reverse map (state -> key)
\* have equal size, and every key k of the forward map has
\* reverse[forward[k]] = k
C1_StoreBijection ==
  /\ Cardinality(DOMAIN data) = Cardinality(DOMAIN states)
  /\ \A k \in DOMAIN data : data[k] \in DOMAIN states /\ states[data[k]] = k

\* C2: once store.response_validates(k, r, True) has returned True, a later
\* store.response_validates(k, r, .) returns False, provided that
\* Fold(Hash(r)) # r and that the key has not been bound anew or removed by
\* add_state or pop_state in between
C2_OneTimeUse ==
  [][(/\ StoreCall(last')
      /\ last'.args[1] \in DOMAIN data
      /\ RESPONSE_BYTES_MEMO[last'.args[2]].exc = ""
      /\ RESPONSE_BYTES_MEMO[last'.args[2]].val \in run[last'.args[1]]
      /\ FoldHash(heap[data[last'.args[1]]].hash_algo,
                  RESPONSE_BYTES_MEMO[last'.args[2]].val)
           # RESPONSE_BYTES_MEMO[last'.args[2]].val)
     => IsFalse(last'.res)]_vars

\* a response that the key has accepted before is presented again and
\* refused
C2_Replayed ==
  /\ StoreCall(last)
  /\ IsFalse(last.res)
  /\ RESPONSE_BYTES_MEMO[last.args[2]].exc = ""
  /\ RESPONSE_BYTES_MEMO[last.args[2]].val \in run[last.args[1]]

\* C3: when store.response_validates(key, r, True) returns True, the key is
\* afterwards bound to an object that did not exist before, with the seed and
\* the algorithm of the old state, the old step minus one, and the 8 bytes
\* decoded from r as its expected digest
C3_MonotonicAdvance ==
  [][(StoreCall(last') /\ last'.args[3] /\ IsTrue(last'.res))
     => LET key == last'.args[1]
            old == heap[data[key]]
            new == heap'[data'[key]]
        IN  /\ data'[key] \notin 1..Len(heap)
            /\ new.seed = old.seed
            /\ new.hash_algo = old.hash_algo
            /\ new.step = old.step - 1
            /\ new.current_digest
                 = PyBytes(response_to_bytes(last'.args[2]).val)]_vars

\* a stored validation has succeeded and the key is bound to the next state
C3_Advanced ==
  /\ StoreCall(last) /\ last.args[3] /\ IsTrue(last.res)
  /\ data[last.args[1]] = Len(heap)
  /\ heap[Len(heap)].step = heap[last.state].step - 1

\* the object the last call looked up is at step 0 and accepts the call's
\* response
AcceptedAtStepZero ==
  /\ last.state # 0
  /\ heap[last.state].step = 0
  /\ IsTrue(OTPState_response_validates(heap[last.state], last.args[2], TRUE).res)

\* C7: a state at step 0 that has recorded a successful validation has no
\* next state: get_next_state raises OTPStateException, so does
\* store.response_validates on its key, and every state of the store has a
\* step >= 0
C7_StepExhaustion ==
  /\ \A id \in 1..Len(heap) :
       (heap[id].step = 0 /\ validated(heap[id]))
         => get_next_state(heap[id])
              = Raise("OTPStateException", "Step value MUST be >= 0")
  /\ (StoreCall(last) /\ last.args[3] /\ AcceptedAtStepZero)
       => last.res = Raise("OTPStateException", "Step value MUST be >= 0")
  /\ \A k \in DOMAIN data : heap[data[k]].step >= 0
  /\ \A id \in DOMAIN states : heap[id].step >= 0

\* the store has been asked to advance a state at step 0 and has raised
C7_Exhausted ==
  /\ StoreCall(last) /\ last.args[3] /\ AcceptedAtStepZero
  /\ last.res.exc = "OTPStateException"
  /\ last.args[1] \in DOMAIN data /\ data[last.args[1]] = last.state

(***************************************************************************)
(* Properties of a state's validation, checked under SpecState.            *)
(***************************************************************************)
StateCall(l) == l.op = "state.response_validates"

\* a validation that reached a state: on the object itself, or through the
\* store on a key that is bound
ValidationCall(l) == StateCall(l) \/ (StoreCall(l) /\ l.state # 0)

\* the response a validation was called with
ResponseOf(l) == IF StoreCall(l) THEN l.args[2] ELSE l.args[1]

\* r is six dictionary words with a matching checksum
IsSixWords(r) == r.t = "str" /\ tokens_to_bytes(r.v).exc = ""

\* r is 16 hex digits, after '0x' or alone
IsHexDigest(r) ==
  /\ r.t = "str"
  /\ LET s == IF startswith(r.v, <<48, 120>>) THEN SubSeq(r.v, 3, Len(r.v))
              ELSE r.v
     IN  Len(s) = 16 /\ \A i \in 1..16 : IsHexDigit(s[i])

WellFormed(r) == IsSixWords(r) \/ IsHexDigest(r)

Bound(self) == self.current_digest.t = "bytes"

Bootstrap(self) == self.current_digest.t = "NoneType"

\* Fold(Hash(b)) of the named algorithm
FoldOfHash(algo, b) ==
  IF algo = STR_md5 THEN md5_digest_folding(hashlib_md5(b))
  ELSE sha1_digest_folding(hashlib_sha1(b))

\* the state's rule: the response's bytes hash and fold, by the state's own
\* algorithm, to the expected digest
Matches(self, r) ==
  FoldOfHash(self.hash_algo, response_to_bytes(r).val) = self.current_digest.v

\* C4: on a state with an expected digest, response_validates of a
\* well-formed response returns True if the response's bytes hash and fold to
\* the digest by the state's own algorithm, and False if they do not
C4_ValidationRule ==
  (StateCall(last) /\ Bound(heap[last.state]) /\ WellFormed(ResponseOf(last)))
    => last.res = Ok(<<Matches(heap[last.state], ResponseOf(last))>>)

\* a SHA-1 state with an expected digest has accepted a response
C4_Sha1Accepted ==
  /\ StateCall(last) /\ Bound(heap[last.state])
  /\ heap[last.state].hash_algo = STR_sha1
  /\ WellFormed(ResponseOf(last))
  /\ IsTrue(last.res)

\* C5: a validation raises OTPInvalidResponse 'The response is neither a valid
\* token or hex' for every response that is neither six valid words nor 16 hex
\* digits, and returns False, raising nothing, for every well-formed response
\* that does not match the expected digest
C5_MalformedVersusWrong ==
  ValidationCall(last)
    => IF ~WellFormed(ResponseOf(last))
         THEN last.res = Raise("OTPInvalidResponse",
                               "The response is neither a valid token or hex")
         ELSE (Bound(heap[last.state]) /\ ~Matches(heap[last.state], ResponseOf(last)))
                => IsFalse(last.res)

\* the key of the last store call is bound to a state another than the one
\* the call looked up, with the response's bytes as its expected digest and
\* the step one less
Rebound ==
  LET old == heap[last.state]
      new == heap[data[last.args[1]]]
  IN  /\ data[last.args[1]] # last.state
      /\ new.current_digest = PyBytes(response_to_bytes(ResponseOf(last)).val)
      /\ new.step = old.step - 1

\* a state without a digest accepts every well-formed response
BootstrapAccepts ==
  (StateCall(last) /\ Bootstrap(heap[last.state]) /\ WellFormed(ResponseOf(last)))
    => IsTrue(last.res)

\* the store call that stores valid responses has reached a state without a
\* digest with a well-formed response
BootstrapStoreCall ==
  /\ StoreCall(last) /\ last.state # 0 /\ last.args[3]
  /\ Bootstrap(heap[last.state])
  /\ WellFormed(ResponseOf(last))

\* C6: a state constructed with ot_hex = None accepts every well-formed
\* response, with either algorithm, and through the store the key is then
\* bound to a state with the response's bytes as its digest and the step one
\* less
C6_BootstrapAcceptance ==
  /\ BootstrapAccepts
  /\ BootstrapStoreCall => Rebound

\* C6 for the states that have a next state: a state constructed with
\* ot_hex = None accepts every well-formed response, with either algorithm, and
\* through the store the key is then bound to a state with the response's
\* bytes as its digest and the step one less, when the state's step is at
\* least 1
C6_BootstrapAcceptanceAboveZero ==
  /\ BootstrapAccepts
  /\ (BootstrapStoreCall /\ heap[last.state].step >= 1) => Rebound

\* the store has advanced a SHA-1 state without a digest
C6_Sha1Enrolled ==
  /\ BootstrapStoreCall
  /\ heap[last.state].hash_algo = STR_sha1
  /\ IsTrue(last.res)
  /\ Rebound

(***************************************************************************)
(* Properties of the generator and of the codec, checked under SpecGen,    *)
(* and of a state's challenge, checked under SpecState.                    *)
(***************************************************************************)
\* the generator a compute_digest call was made on
GeneratorOf(l) ==
  [password |-> l.args[1].v, seed |-> l.args[2].v, hash_algo |-> l.args[3].v]

\* C8: compute_digest(0) is Fold(Hash(lowercase(seed) ++ password)), and for
\* a step >= 1 compute_digest(step) is Fold(Hash(compute_digest(step - 1)))
C8_ChainRecurrence ==
  (last.op = "compute_digest")
    => LET gen == GeneratorOf(last)
           step == last.args[4].v[1]
       IN  last.res.val
             = IF step = 0
                 THEN FoldOfHash(gen.hash_algo, lower(gen.seed) \o gen.password)
                 ELSE FoldOfHash(gen.hash_algo, compute_digest(gen, step - 1))

\* a SHA-1 generator has computed the digest of a step above 1
C8_LaterStep ==
  /\ last.op = "compute_digest"
  /\ last.args[3].v = STR_sha1
  /\ last.args[4].v[1] >= 2
  /\ last.res.val = FoldOfHash(STR_sha1, compute_digest(GeneratorOf(last),
                                                         last.args[4].v[1] - 1))

\* the state has the digest of generator step n as its expected digest, the
\* generator being the one of PASSWORD, of the state's seed and algorithm
HasDigestOfStep(self, n) ==
  self.current_digest
    = PyBytes(compute_digest([password |-> PASSWORD, seed |-> self.seed,
                              hash_algo |-> self.hash_algo], n))

\* the call answers, for PASSWORD, the challenge of the state it is made on
AnswersChallenge(l) ==
  /\ StateCall(l)
  /\ LET answer == generate_otp_hexdigest_from_challenge(
                     PASSWORD, PyStr(challenge_string(heap[l.state])))
     IN  answer.exc = "" /\ ResponseOf(l) = PyStr(answer.val)

\* C9: a state provisioned with the generator's hex digest of step n as
\* ot_hex and n as current_step accepts the answer the generator computes
\* from the state's challenge_string
C9_ChallengeResponseAgreement ==
  (AnswersChallenge(last) /\ HasDigestOfStep(heap[last.state], heap[last.state].step))
    => IsTrue(last.res)

\* the agreement that does hold: a state with the generator's hex digest of
\* step n + 1 as ot_hex and n as current_step accepts the answer the generator
\* computes from the state's challenge_string
AgreementWithDigestOfStepAbove ==
  (AnswersChallenge(last)
     /\ HasDigestOfStep(heap[last.state], heap[last.state].step + 1))
    => IsTrue(last.res)

\* a state at step 1 with the digest of step 2 has accepted the answer to its
\* challenge
AnsweredWithDigestOfStepAbove ==
  /\ AnswersChallenge(last)
  /\ heap[last.state].step = 1
  /\ HasDigestOfStep(heap[last.state], 2)
  /\ IsTrue(last.res)

\* C10: tokens_to_bytes(bytes_to_tokens(b)) = b for an 8-byte value b, the
\* tokens being six dictionary words of eleven bits each, the 64 bits of b
\* first and then the two bits of the checksum
C10_CodecRoundTrip ==
  [][(last.op = "bytes_to_tokens" /\ last'.op = "tokens_to_bytes"
        /\ last'.args[1] = PyStr(last.res.val))
     => LET b == last.args[1].v
            words == split(last.res.val)
            bits == Concat([i \in 1..6 |-> IntToBits(words[i][1] - 2097152, 11)])
        IN  /\ last'.res = Ok(b)
            /\ Len(words) = 6
            /\ \A i \in 1..6 : Len(words[i]) = 1 /\ words[i][1] - 2097152 \in 0..2047
            /\ SubSeq(bits, 1, 64) = BytesToBits(b)
            /\ BitsToInt(SubSeq(bits, 65, 66)) = PairSum(BytesToBits(b)) % 4]_vars

\* the words of an 8-byte value have been decoded to that value
C10_Decoded ==
  /\ last.op = "tokens_to_bytes"
  /\ last.res.exc = ""
  /\ last.res.val \in Digests
  /\ last.args[1] = PyStr(bytes_to_tokens(last.res.val))

\* the call is a range call of a generator, for a step n >= 0
RangeCall(l) ==
  l.op \in {"hexdigest_range", "words_range"} /\ l.args[4].v[1] >= 0

\* what the generator gives for a single step, in the form of the range
SingleStep(l, n) ==
  IF l.op = "words_range" THEN generate_otp_words(GeneratorOf(l), PyInt(n))
  ELSE generate_otp_hexdigest(GeneratorOf(l), PyInt(n))

\* C18: hexdigest_range(n) and words_range(n) yield n + 1 elements, of
\* which the i-th, counted from 0, is generate_otp_hexdigest(n - i),
\* respectively generate_otp_words(n - i)
C18_RangeOrdering ==
  RangeCall(last)
    => /\ last.res.exc = ""
       /\ Len(last.res.val) = last.args[4].v[1] + 1
       /\ \A i \in 0..last.args[4].v[1] :
            Ok(last.res.val[i + 1]) = SingleStep(last, last.args[4].v[1] - i)

\* the hex range of the MD5 generator of 'TeSt' for a step above 1 has
\* ended with the digest of step 0 and begun with the digest of the step
C18_DescendingToZero ==
  /\ RangeCall(last) /\ last.op = "hexdigest_range"
  /\ GeneratorOf(last) = Gen(STR_md5)
  /\ last.args[4].v[1] >= 2
  /\ last.res.val[Len(last.res.val)] = HexOf(STR_md5, 0)
  /\ last.res.val[1] = HexOf(STR_md5, last.args[4].v[1])
  /\ last.res.val[1] # HexOf(STR_md5, 0)

(***************************************************************************)
(* Properties of the forms of a response and of the pending response,      *)
(* checked under SpecState.                                                *)
(***************************************************************************)
\* the three forms of an 8-byte value b: 16 hex digits, '0x' and 16 hex
\* digits, six words
HexForm(b) == PyStr(hexlify(b))

PrefixedHexForm(b) == PyStr(<<48, 120>> \o hexlify(b))

WordForm(b) == PyStr(bytes_to_tokens(b))

\* response_to_bytes of the three forms of the 8-byte values of the model,
\* computed once
FORM_BYTES_MEMO ==
  [b \in Digests |-> <<response_to_bytes(HexForm(b)),
                       response_to_bytes(PrefixedHexForm(b)),
                       response_to_bytes(WordForm(b))>>]

\* the call has left behind, and returned, what the three forms of b leave
\* behind and return on the object as it was before the call
SameInEveryForm(self, b, store_valid_response, res, after) ==
  \A i \in 1..3 :
    validates_bytes(self, FORM_BYTES_MEMO[b][i], store_valid_response)
      = [res |-> res, self |-> after]

\* C11: a response_validates call with a response that stands for the 8-byte
\* value b returns, and records as the pending response, exactly what the
\* call would with b as 16 hex digits, as '0x' and 16 hex digits, and as the
\* six words of b
C11_FormIndependence ==
  [][(StateCall(last') /\ RESPONSE_BYTES_MEMO[last'.args[1]].exc = "")
     => SameInEveryForm(heap[last'.state],
                        RESPONSE_BYTES_MEMO[last'.args[1]].val,
                        last'.args[2], last'.res, heap'[last'.state])]_vars

\* a SHA-1 state with an expected digest has accepted the six words of a
\* value and recorded the 16 hex digits of the value
C11_WordsRecordedAsHex ==
  /\ StateCall(last) /\ last.args[2] /\ IsTrue(last.res)
  /\ Bound(heap[last.state])
  /\ heap[last.state].hash_algo = STR_sha1
  /\ IsSixWords(last.args[1])
  /\ heap[last.state].new_digest_hex
       = HexForm(RESPONSE_BYTES_MEMO[last.args[1]].val)

\* in this step response_validates(., True) has returned True on object id:
\* called on the object itself, or by the store on the object of the key
StoredAcceptance(id) ==
  \/ /\ StateCall(last') /\ last'.state = id
     /\ last'.args[2] /\ IsTrue(last'.res)
  \/ /\ StoreCall(last') /\ last'.state = id /\ last'.args[3]
     /\ IsTrue(OTPState_response_validates(heap[id], last'.args[2], TRUE).res)

\* the objects a step has made, changed or called
Touched ==
  {id \in 1..Len(heap') :
     id > Len(heap) \/ heap'[id] # heap[id] \/ id = last'.state}

\* C12: an object is validated after a step exactly if it was validated
\* before it or response_validates(., True) has returned True on it in the
\* step (a new object is not validated), get_next_state gives None exactly
\* for the objects that are not validated, and a get_next_state call on such
\* an object returns None; stated for the objects the step has made, changed
\* or called, the others being as they were
C12_NoNextStateBeforeAcceptance ==
  [][/\ \A id \in Touched :
          /\ validated(heap'[id])
               <=> (id <= Len(heap) /\ (validated(heap[id]) \/ StoredAcceptance(id)))
          /\ (get_next_state(heap'[id]) = Ok(<<>>)) <=> ~validated(heap'[id])
     /\ (last'.op = "get_next_state" /\ ~validated(heap[last'.state]))
          => last'.res = Ok(<<>>)]_vars

\* a state has accepted a response that it was asked not to store, and has
\* no next state
C12_AcceptedWithoutStoring ==
  /\ StateCall(last) /\ ~last.args[2] /\ IsTrue(last.res)
  /\ ~validated(heap[last.state])
  /\ get_next_state(heap[last.state]) = Ok(<<>>)

\* C13: no call changes the seed, the algorithm, the step or the expected
\* digest of an object that exists, whatever the call returns or raises;
\* only the pending response of an object can change
C13_StateImmutability ==
  [][\A id \in 1..Len(heap) :
       /\ id <= Len(heap')
       /\ heap'[id].seed = heap[id].seed
       /\ heap'[id].hash_algo = heap[id].hash_algo
       /\ heap'[id].step = heap[id].step
       /\ heap'[id].current_digest = heap[id].current_digest]_vars

\* a state with an expected digest has accepted and recorded a response,
\* and expects the digest it expected before
C13_RecordedBesideDigest ==
  /\ StateCall(last) /\ last.args[2] /\ IsTrue(last.res)
  /\ Bound(heap[last.state])
  /\ heap[last.state].new_digest_hex
       = HexForm(RESPONSE_BYTES_MEMO[last.args[1]].val)
  /\ Matches(heap[last.state], last.args[1])

\* the direct call of this step has returned True and was asked to store
AcceptedAndStored == StateCall(last') /\ last'.args[2] /\ IsTrue(last'.res)

\* the bytes of the response of the call of this step
BytesOfCall == RESPONSE_BYTES_MEMO[last'.args[1]].val

\* get_next_state of the object gives a state that expects the bytes b
NextStateExpects(self, b) ==
  /\ get_next_state(self).exc = ""
  /\ get_next_state(self).val # <<>>
  /\ get_next_state(self).val[1].current_digest = PyBytes(b)

\* what a direct call leaves of the pending response: the call's response
\* if it was accepted and stored, and the pending response as it was
\* otherwise; accepting the pending response again changes nothing
PendingAfterCall ==
  /\ AcceptedAndStored
       => heap'[last'.state].new_digest_hex = HexForm(BytesOfCall)
  /\ (AcceptedAndStored /\ heap[last'.state].new_digest_hex = HexForm(BytesOfCall))
       => heap'[last'.state] = heap[last'.state]
  /\ (StateCall(last') /\ ~AcceptedAndStored)
       => heap'[last'.state].new_digest_hex = heap[last'.state].new_digest_hex

\* C20: after a response_validates call that was accepted and stored,
\* get_next_state returns a state that expects the bytes of that response,
\* whatever was pending before; a call that fails or that is not asked to
\* store leaves the pending response as it was, and accepting the same
\* response again changes nothing
C20_PendingOverwrites ==
  [][/\ PendingAfterCall
     /\ AcceptedAndStored
          => NextStateExpects(heap'[last'.state], BytesOfCall)]_vars

\* C20 for the states that have a next state: as above for a state at a
\* step of at least 1; at step 0 the response is recorded all the same and
\* get_next_state raises OTPStateException
C20_PendingOverwritesAboveZero ==
  [][/\ PendingAfterCall
     /\ (AcceptedAndStored /\ heap[last'.state].step >= 1)
          => NextStateExpects(heap'[last'.state], BytesOfCall)
     /\ (AcceptedAndStored /\ heap[last'.state].step = 0)
          => get_next_state(heap'[last'.state])
               = Raise("OTPStateException", "Step value MUST be >= 0")]_vars

\* the first object has given a next state that expects one value, and has
\* then accepted and recorded another, which its next state now expects
C20_Overwritten ==
  /\ Len(heap) = 2
  /\ StateCall(last) /\ last.state = 1 /\ last.args[2] /\ IsTrue(last.res)
  /\ heap[2].current_digest.t = "bytes"
  /\ heap[2].current_digest # PyBytes(RESPONSE_BYTES_MEMO[last.args[1]].val)
  /\ NextStateExpects(heap[1], RESPONSE_BYTES_MEMO[last.args[1]].val)

(***************************************************************************)
(* Properties of the frame of the store's calls, checked under Spec.       *)
(***************************************************************************)
\* the binding of key k is in d2 what it is in d1
SameBinding(d1, d2, k) ==
  (k \in DOMAIN d1) = (k \in DOMAIN d2) /\ (k \in DOMAIN d1 => d1[k] = d2[k])

\* C14: store.response_validates(key, r, store_valid_response) leaves both
\* dicts as they were when it returns False and when store_valid_response is
\* False, changes the binding of key only when it returns True with
\* store_valid_response True, and changes no binding of another key
C14_StoreFrame ==
  [][StoreCall(last')
     => /\ (IsFalse(last'.res) \/ ~last'.args[3])
             => (data' = data /\ states' = states)
        /\ ~SameBinding(data, data', last'.args[1])
             => (IsTrue(last'.res) /\ last'.args[3])
        /\ \A k \in (DOMAIN data \cup DOMAIN data') \ {last'.args[1]} :
             SameBinding(data, data', k)]_vars

\* pop_state(key) has taken the key out of _data and its state out of
\* _states and returned the state
Popped(key) ==
  /\ key \in DOMAIN data
  /\ last'.res = Ok(<<data[key]>>)
  /\ data' = DictDel(data, key)
  /\ data[key] \in DOMAIN states
  /\ states' = DictDel(states, data[key])

\* pop_state(key) has raised and left both dicts as they were
PopRefused(key) ==
  /\ last'.res.exc # ""
  /\ (key.t = "str" /\ key \notin DOMAIN data) => last'.res.exc = "KeyError"
  /\ key.t # "str" => last'.res.exc = "OTPStoreException"
  /\ data' = data
  /\ states' = states

\* C15: pop_state(key) either removes the key from _data and its state from
\* _states and returns the state, or raises (KeyError for a missing key,
\* OTPStoreException for a key that is not a str) and leaves both dicts as
\* they were
C15_PopAllOrNothing ==
  [][last'.op = "pop_state"
     => (Popped(last'.args[1]) \/ PopRefused(last'.args[1]))]_vars

\* s is 16 hex digits in lower case
IsLowerHex16(s) ==
  Len(s) = 16 /\ \A i \in 1..16 : s[i] \in (48..57) \cup (97..102)

\* the record of a state has the documented shape
RecordShape(self, rec) ==
  /\ DOMAIN rec = {"ot_hex", "current_step", "seed", "hash_algo"}
  /\ IF Bootstrap(self) THEN rec.ot_hex = PyNone
     ELSE rec.ot_hex.t = "str" /\ IsLowerHex16(rec.ot_hex.v)
  /\ rec.current_step.t = "int" /\ rec.current_step.v[1] >= 0
  /\ rec.seed = PyStr(self.seed)
  /\ rec.hash_algo \in {PyStr(STR_md5), PyStr(STR_sha1)}

\* made is what OTPState.from_dict did with the record of self: a state with
\* the seed, the algorithm, the step and the expected digest of self
SameAsMade(self, made) ==
  /\ made.exc = ""
  /\ made.val[1].seed = self.seed
  /\ made.val[1].hash_algo = self.hash_algo
  /\ made.val[1].step = self.step
  /\ made.val[1].current_digest = self.current_digest

\* loaded is what OTPStore(dict_obj) did: a store whose to_dict is dict_obj
LoadsTo(dict_obj, loaded) ==
  /\ loaded.res.exc = ""
  /\ OTPStore_to_dict(loaded.heap, loaded.data) = dict_obj

\* C17: for the dict that store.to_dict() has returned,
\* OTPStore(dict).to_dict() is that dict, every record of it has the fields
\* ot_hex (16 lower-case hex digits, None for a state without a digest),
\* current_step (an int >= 0), seed and hash_algo ('md5' or 'sha1'), and
\* OTPState.from_dict of a state's record has the seed, the algorithm, the
\* step and the expected digest of the state
C17_SerializationRoundTrip ==
  (last.op = "store.to_dict")
    => /\ DOMAIN last.res.val[1] = DOMAIN data
       /\ LoadsTo(last.res.val[1], OTPStore_init(last.res.val[1]))
       /\ \A key \in DOMAIN data :
            /\ RecordShape(heap[data[key]], last.res.val[1][key])
            /\ SameAsMade(heap[data[key]], from_dict(last.res.val[1][key]))

\* the dict of a store with two keys, one bound to a state with a digest
\* and one to a state without, has been returned
C17_TwoRecords ==
  /\ last.op = "store.to_dict"
  /\ DOMAIN last.res.val[1] = Keys
  /\ \E k1, k2 \in Keys :
       /\ last.res.val[1][k1].ot_hex = PyNone
       /\ last.res.val[1][k2].ot_hex.t = "str"
       /\ last.res.val[1][k2].current_step = PyInt(MaxStep - 1)

(***************************************************************************)
(* OTPStore.response_validates(key, response) statement by statement, as   *)
(* a reader of the store's dicts in another thread can find it: the        *)
(* method takes no lock, and the dicts are reachable through store.data    *)
(* and store.states.  SpecAdvance is a caller that gives every key and     *)
(* every state one binding, and calls the method with                      *)
(* store_valid_response left at True.                                      *)
(***************************************************************************)
\* the call as it has returned or raised
Returned(key, response, state, res) ==
  [op |-> "store.response_validates", args |-> <<key, response, TRUE>>,
   state |-> state, res |-> res]

\* rv is what state.response_validates(response, True) did
AfterLine439(key, response, state, rv) ==
  /\ heap' = [heap EXCEPT ![state] = rv.self]
  /\ IF IsTrue(rv.res)
       THEN /\ frame' = [line |-> 441, key |-> key, response |-> response,
                         state |-> state, rvalue |-> rv.res, next_state |-> 0]
            /\ UNCHANGED last
       ELSE /\ frame' = NoFrame
            /\ last' = Returned(key, response, state, rv.res)
  /\ UNCHANGED <<data, states, run>>

\* state = self._data[key]; rvalue = state.response_validates(...);
\* if rvalue and store_valid_response: ... else return rvalue
Line438(key, response) ==
  /\ frame.line = 0
  /\ IF key \in DOMAIN data
       THEN AfterLine439(key, response, data[key],
                         OTPState_response_validates(heap[data[key]], response, TRUE))
       ELSE /\ last' = Returned(key, response, 0, Raise("KeyError", "key"))
            /\ UNCHANGED <<heap, data, states, run, frame>>

\* next is what state.get_next_state() did
AfterLine441(next) ==
  /\ next.exc = "" => Len(heap) < MaxObjs
  /\ IF next.exc = ""
       THEN /\ heap' = Append(heap, next.val[1])
            /\ frame' = [frame EXCEPT !.line = 442, !.next_state = Len(heap) + 1]
            /\ UNCHANGED last
       ELSE /\ frame' = NoFrame
            /\ last' = Returned(frame.key, frame.response, frame.state, next)
            /\ UNCHANGED heap
  /\ UNCHANGED <<data, states, run>>

\* next_state = state.get_next_state()
Line441 ==
  /\ frame.line = 441
  /\ AfterLine441(get_next_state(heap[frame.state]))

\* self._data[key] = next_state
Line442 ==
  /\ frame.line = 442
  /\ data' = DictSet(data, frame.key, frame.next_state)
  /\ frame' = [frame EXCEPT !.line = 443]
  /\ UNCHANGED <<heap, states, last, run>>

\* self._states[next_state] = key
Line443 ==
  /\ frame.line = 443
  /\ states' = DictSet(states, frame.next_state, frame.key)
  /\ frame' = [frame EXCEPT !.line = 444]
  /\ UNCHANGED <<heap, data, last, run>>

\* self._states.pop(state)
Line444 ==
  /\ frame.line = 444
  /\ IF frame.state \in DOMAIN states
       THEN /\ states' = DictDel(states, frame.state)
            /\ frame' = [frame EXCEPT !.line = 445]
            /\ UNCHANGED last
       ELSE /\ frame' = NoFrame
            /\ last' = Returned(frame.key, frame.response, frame.state,
                                Raise("KeyError", "state"))
            /\ UNCHANGED states
  /\ UNCHANGED <<heap, data, run>>

\* return rvalue
Line445 ==
  /\ frame.line = 445
  /\ last' = Returned(frame.key, frame.response, frame.state, frame.rvalue)
  /\ run' = [run EXCEPT ![frame.key]
                          = @ \cup {RESPONSE_BYTES_MEMO[frame.response].val}]
  /\ frame' = NoFrame
  /\ UNCHANGED <<heap, data, states>>

NextAdvance ==
  \/ \E o \in StoreOtHexArgs, n \in StoreStepArgs :
       frame.line = 0 /\ NewOTPState(o, n, PyStr(SEED), PyStr(STR_md5))
  \/ \E k \in Keys, id \in 1..Len(heap) :
       /\ frame.line = 0
       /\ k \notin DOMAIN data
       /\ id \notin DOMAIN states
       /\ AddState(k, PyObj(id))
  \/ \E k \in Keys : frame.line = 0 /\ PopState(k)
  \/ \E k \in Keys, r \in StoreResponses : Line438(k, r)
  \/ Line441
  \/ Line442
  \/ Line443
  \/ Line444
  \/ Line445

SpecAdvance == Init /\ [][NextAdvance]_vars

\* C16: whenever the dicts are read, between calls or between two
\* statements of a call of store.response_validates, they are consistent with
\* each other: every key's state is bound back to the key, and every state's
\* key is bound to the state
C16_AtomicAdvance ==
  /\ \A k \in DOMAIN data : data[k] \in DOMAIN states /\ states[data[k]] = k
  /\ \A id \in DOMAIN states : states[id] \in DOMAIN data /\ data[states[id]] = id

\* what does hold: the dicts are consistent with each other whenever no call
\* of store.response_validates is between its statements
ConsistentBetweenCalls == frame.line = 0 => C16_AtomicAdvance

(***************************************************************************)
(* SpecNew: a caller that constructs states from arguments of every kind  *)
(* and calls the two conversions of a response directly.                   *)
(***************************************************************************)
\* ot_hex: None, '0x7965e05436f5029f', '0x7965e05436f5029t', sixteen times
\* U+00E9, fifteen hex digits, and the int 5
NewOtHexArgs ==
  {PyNone, PyStr(HexOf(STR_md5, 1)),
   PyStr(WithLast(HexOf(STR_md5, 1), 116)),
   PyStr(NON_ASCII),
   PyStr(SubSeq(HexOf(STR_md5, 1), 3, 17)),
   PyInt(5)}

\* current_step: -1, 0, 1 and the str '1'
NewStepArgs == {PyInt(0 - 1), PyInt(0), PyInt(1), PyStr(<<49>>)}

\* seed: 'TeSt', the bytes of 'TeStø', 'Te St' and a str of 17 letters
NewSeedArgs ==
  {PyStr(SEED), PyBytes(SEED \o <<195, 184>>),
   PyStr(<<84, 101, 32, 83, 116>>), PyStr([i \in 1..17 |-> 97])}

\* hash_algo: 'md5', 'sha1', 'bla' and the int 9
NewAlgoArgs == {PyStr(STR_md5), PyStr(STR_sha1), PyStr(BLA), PyInt(9)}

NextNew ==
  \/ \E o \in NewOtHexArgs, n \in NewStepArgs, s \in NewSeedArgs, a \in NewAlgoArgs :
       NewOTPState(o, n, s, a)
  \/ \E o \in ValidateHexArgs : ValidateHex(o)
  \/ \E r \in StateResponses : ResponseToBytes(r)

SpecNew == Init /\ [][NextNew]_vars

\* a seed, an algorithm and a step that the constructor has to accept
ValidSeed(seed) ==
  /\ seed.t = "str"
  /\ Len(seed.v) \in 1..16
  /\ \A i \in 1..Len(seed.v) : IsAsciiAlnum(seed.v[i])

ValidAlgo(hash_algo) == hash_algo \in {PyStr(STR_md5), PyStr(STR_sha1)}

ValidStep(step) == step.t = "int" /\ step.v[1] >= 0

\* the validator has refused its argument with the message msg
RefusedWith(v, msg) == v.exc # "" /\ v.msg = msg

\* msg is the message of a validator of seed, algorithm or step that
\* refuses its argument
RefusalBeforeOtHex(step, seed, hash_algo, msg) ==
  \/ RefusedWith(validate_seed(seed), msg)
  \/ RefusedWith(validate_hash_algo(hash_algo), msg)
  \/ RefusedWith(validate_step(step), msg)

\* C19: OTPState(ot_hex, current_step, seed, hash_algo) with an invalid seed,
\* algorithm or step raises OTPStateException with the message of one of
\* these, whatever ot_hex is; with these valid and an ot_hex that is neither
\* None nor 16 hex digits it raises OTPStateException; in both cases no
\* state is created; with everything valid a state is created
C19_ConstructorValidation ==
  [][last'.op = "OTPState"
     => IF ~(ValidSeed(last'.args[3]) /\ ValidAlgo(last'.args[4])
               /\ ValidStep(last'.args[2]))
          THEN /\ last'.res.exc = "OTPStateException"
               /\ RefusalBeforeOtHex(last'.args[2], last'.args[3], last'.args[4],
                                     last'.res.msg)
               /\ heap' = heap
        ELSE IF last'.args[1] # PyNone /\ ~IsHexDigest(last'.args[1])
          THEN last'.res.exc = "OTPStateException" /\ heap' = heap
        ELSE last'.res.exc = "" /\ Len(heap') = Len(heap) + 1]_vars

(***************************************************************************)
(* The language of validate_hex, checked under SpecNew.                    *)
(***************************************************************************)
\* the characters of a str after the removal of a leading '0x'
WithoutPrefix(s) == IF startswith(s, <<48, 120>>) THEN SubSeq(s, 3, Len(s)) ELSE s

\* C21: validate_hex returns the 8 bytes that the digits spell if its
\* argument is a str of exactly 16 hex digits, in either case, after an
\* optional '0x', and raises OTPStateException for every other argument;
\* response_to_bytes of such an argument that is no six-word token either
\* raises OTPInvalidResponse
C21_HexAcceptance ==
  /\ last.op = "validate_hex"
       => IF IsHexDigest(last.args[1])
            THEN last.res = Ok(HexPairs(WithoutPrefix(last.args[1].v)))
            ELSE last.res.exc = "OTPStateException"
  /\ (last.op = "response_to_bytes" /\ ~IsSixWords(last.args[1]))
       => IF IsHexDigest(last.args[1])
            THEN last.res = Ok(HexPairs(WithoutPrefix(last.args[1].v)))
            ELSE last.res.exc = "OTPInvalidResponse"

\* what does hold: the same with the str of 16 characters that has a
\* non-ASCII character (ValueError) and the str with blanks around the
\* digits after '0x' (accepted) left out
HexAcceptanceOfTheRest ==
  (/\ last.op \in {"validate_hex", "response_to_bytes"}
   /\ last.args[1] \notin {PyStr(NON_ASCII), PyStr(PADDED_HEX)})
    => C21_HexAcceptance

(***************************************************************************)
(* SpecChallenge: a caller that constructs a state of either algorithm, at *)
(* a step of one, two or three digits, has it validate and store a         *)
(* response and asks for its next state.                                   *)
(***************************************************************************)
\* 'TesT', the seed of the documented challenge 'otp-md5 499 TesT '
SEED_TesT == <<84, 101, 115, 84>>

ChallengeOtHexArgs == {PyNone, PyStr(HexOf(STR_md5, 1))}

\* 0, 1, 10 and 499
ChallengeStepArgs == {PyInt(0), PyInt(1), PyInt(10), PyInt(499)}

ChallengeSeedArgs == {PyStr(SEED), PyStr(SEED_TesT), PyStr(SEED_2)}

\* the MD5 digest of step 0 in hex and the SHA-1 digest of step 0 in words
ChallengeResponses == {PyStr(HexOf(STR_md5, 0)), PyStr(WordsOf(STR_sha1, 0))}

NextChallenge ==
  \/ \E o \in ChallengeOtHexArgs, n \in ChallengeStepArgs,
        s \in ChallengeSeedArgs, a \in Algos :
       NewOTPState(o, n, s, PyStr(a))
  \/ \E id \in 1..Len(heap), r \in ChallengeResponses, f \in BOOLEAN :
       StateResponseValidates(id, r, f)
  \/ \E id \in 1..Len(heap) : GetNextState(id) /\ Len(heap') <= MaxHeld

SpecChallenge == Init /\ [][NextChallenge]_vars

\* 'otp-md5 499 TesT '
DOCUMENTED_CHALLENGE ==
  <<111, 116, 112, 45, 109, 100, 53, 32, 52, 57, 57, 32, 84, 101, 115, 84, 32>>

\* the challenge is three words: 'otp-' and the algorithm, the step in
\* decimal digits, the seed; one space after each and nothing else
ChallengeForm(self) ==
  LET c == challenge_string(self)
      w == split(c)
  IN  /\ Len(w) = 3
      /\ w[1] = STR_otp \o self.hash_algo
      /\ DecToInt(w[2]) = self.step /\ w[2] = IntToDec(self.step)
      /\ w[3] = self.seed
      /\ Len(c) = Len(w[1]) + Len(w[2]) + Len(w[3]) + 3
      /\ c[Len(c)] = 32 /\ c[Len(c) - 1] # 32
      /\ (self.hash_algo = STR_md5 /\ self.step = 499 /\ self.seed = SEED_TesT)
           => c = DOCUMENTED_CHALLENGE

\* the generator's parser gives back the state's algorithm, step and seed
ParsesBack(self) ==
  parse_challenge(PyStr(challenge_string(self)))
    = Ok(<<self.hash_algo, self.step, self.seed>>)

\* get_next_state has returned a new state
NextStateReturned ==
  last.op = "get_next_state" /\ last.res.exc = "" /\ last.res.val # <<>>

\* the challenges of a state and of its next state: the same algorithm and
\* seed, the step one less
OnlyStepDiffers(old, new) ==
  LET p == parse_challenge(PyStr(challenge_string(old))).val
      q == parse_challenge(PyStr(challenge_string(new))).val
  IN  q = <<p[1], p[2] - 1, p[3]>>

\* C22: the challenge of every constructed state is 'otp-<algo> <step> <seed> ',
\* ending in one space; the generator's parser returns the state's algorithm,
\* step and seed from it; the challenge of a next state differs from its
\* predecessor's in the step only, which is one less
C22_ChallengeRoundTrip ==
  /\ \A id \in 1..Len(heap) : ChallengeForm(heap[id]) /\ ParsesBack(heap[id])
  /\ NextStateReturned => OnlyStepDiffers(heap[last.state], heap[last.res.val[1]])

\* the next state of an SHA-1 state at step 10 has been returned: its
\* challenge has one digit less
C22_NextOfStepTen ==
  /\ NextStateReturned
  /\ heap[last.state].step = 10 /\ heap[last.state].hash_algo = STR_sha1
  /\ heap[last.res.val[1]].step = 9

(***************************************************************************)
(* otp2289.__main__: the command line.  A Namespace is a record of the     *)
(* parser's destinations; stdout is a str.                                 *)
(***************************************************************************)
\* os.linesep
linesep == <<10>>

\* errno.EACCES
EACCES == 13

\* 'token'
STR_token == <<116, 111, 107, 101, 110>>

\* 'hex'
STR_hex == <<104, 101, 120>>

\* str(n) of an int
str_int(n) == IF n < 0 THEN <<45>> \o IntToDec(0 - n) ELSE IntToDec(n)

\* f'Seed: {seed}, Step: {step}, Hash: {hash_algo}'
header_of(seed, step, hash_algo) ==
  <<83, 101, 101, 100, 58, 32>> \o seed
    \o <<44, 32, 83, 116, 101, 112, 58, 32>> \o str_int(step)
    \o <<44, 32, 72, 97, 115, 104, 58, 32>> \o hash_algo

\* f', Range: {range}'
range_suffix(range) == <<44, 32, 82, 97, 110, 103, 101, 58, 32>> \o str_int(range)

\* header + r, when r was returned and not raised
with_header(header, r) == IF r.exc # "" THEN r ELSE Ok(header \o r.val)

\* linesep.join(lines)
RECURSIVE join(_, _)
join(sep, lines) ==
  IF lines = <<>> THEN <<>>
  ELSE IF Len(lines) = 1 THEN lines[1]
  ELSE lines[1] \o sep \o join(sep, Tail(lines))

\* generate_otp_response after the construction of the generator, which did g
response_of(args, g) ==
  IF g.exc # "" THEN g
  ELSE IF args.challenge_string # <<>>
    THEN generate_otp_from_challenge(g.val[1], PyStr(args.challenge_string),
                                     args.output_format = STR_token)
  ELSE with_header(IF args.quiet THEN <<>>
                   ELSE header_of(args.seed, args.step, args.hash_algo) \o linesep,
                   generate_otp(g.val[1], PyInt(args.step),
                                args.output_format = STR_token))

generate_otp_response(args) ==
  response_of(args, OTPGenerator_init(PyBytes(encode(args.password)),
                                      PyStr(args.seed), PyStr(args.hash_algo)))

\* args.range after 'if args.range > args.step + 1'
clamped(step, range) == IF range > step + 1 THEN step + 1 ELSE range

\* the steps generate_otp_range asks the generator for, in the order it asks:
\* the step alone for a range of 1, else range(step, step - range, -1) of the
\* range clamped to step + 1
range_steps(step, range) ==
  IF range = 1 THEN <<step>>
  ELSE [i \in 1..clamped(step, range) |-> step - i + 1]

\* [f'{step}: ' + method(step) for step in steps], or what method raised first
RECURSIVE range_lines(_, _, _)
range_lines(gen, steps, words) ==
  IF steps = <<>> THEN Ok(<<>>)
  ELSE LET r == generate_otp(gen, PyInt(Head(steps)), words)
           rest == range_lines(gen, Tail(steps), words)
       IN  IF r.exc # "" THEN r
           ELSE IF rest.exc # "" THEN rest
           ELSE Ok(<<str_int(Head(steps)) \o <<58, 32>> \o r.val>> \o rest.val)

\* generate_otp_range after the construction of the generator, which did g;
\* lines is what the calls of the generator's method did
range_of_lines(args, g, lines) ==
  IF g.exc # "" THEN g
  ELSE IF lines.exc # "" THEN lines
  ELSE IF args.range = 1 THEN Ok(lines.val[1])
  ELSE Ok((IF args.quiet THEN <<>>
           ELSE header_of(args.seed, args.step, args.hash_algo)
                  \o range_suffix(clamped(args.step, args.range)) \o linesep)
          \o join(linesep, lines.val))

range_with(args, g) ==
  range_of_lines(args, g,
                 IF g.exc # "" THEN g
                 ELSE range_lines(g.val[1], range_steps(args.step, args.range),
                                  args.output_format = STR_token))

generate_otp_range(args) ==
  range_with(args, OTPGenerator_init(PyBytes(encode(args.password)),
                                     PyStr(args.seed), PyStr(args.hash_algo)))

\* initiate_new_sequence after 'if not args.seed', with the seed it leaves
initiate_with(args, seed, g) ==
  IF g.exc # "" THEN g
  ELSE with_header(IF args.quiet THEN <<>>
                   ELSE header_of(seed, args.step, args.hash_algo) \o linesep,
                   IF args.challenge_string # <<>>
                     THEN generate_otp_from_challenge(
                            g.val[1], PyStr(args.challenge_string), FALSE)
                     ELSE generate_otp(g.val[1], PyInt(args.step), FALSE))

initiate_seeded(args, seed) ==
  initiate_with(args, seed,
                OTPGenerator_init(PyBytes(encode(args.password)), PyStr(seed),
                                  PyStr(args.hash_algo)))

\* rnd_seed is what get_rnd_seed returns when it is called
initiate_new_sequence(args, rnd_seed) ==
  initiate_seeded(args, IF args.seed = <<>> THEN rnd_seed ELSE args.seed)

\* the operations in the order main tests their flags
Operations == <<"initiate_new_sequence", "generate_otp_range", "generate_otp_response">>

\* what an operation returns or raises
operation(op, args, rnd_seed) ==
  IF op = "initiate_new_sequence" THEN initiate_new_sequence(args, rnd_seed)
  ELSE IF op = "generate_otp_range" THEN generate_otp_range(args)
  ELSE generate_otp_response(args)

\* the try block of main from the operation ops[1] on: [out, ran, res], what
\* was printed, the operations that were called, and what the last of them
\* raised (Ok when none did)
RECURSIVE run_operations(_, _, _, _)
run_operations(ops, args, rnd_seed, acc) ==
  IF ops = <<>> THEN acc
  ELSE IF ~args[Head(ops)] THEN run_operations(Tail(ops), args, rnd_seed, acc)
  ELSE LET r == operation(Head(ops), args, rnd_seed)
       IN  IF r.exc # ""
             THEN [out |-> acc.out, ran |-> Append(acc.ran, Head(ops)), res |-> r]
           ELSE run_operations(Tail(ops), args, rnd_seed,
                               [out |-> acc.out \o r.val \o linesep,
                                ran |-> Append(acc.ran, Head(ops)), res |-> r])

\* main had it left with 0 whatever the operation did
exit_code_always_zero(res) == 0

\* the code main leaves with after its try block: sys.exit(0) at its end,
\* sys.exit(1) after an exception
exit_code(res) == IF res.exc = "" THEN 0 ELSE 1

\* a Namespace of the parser: one of the three operations, -P or -p or
\* neither, and the other options or their defaults
Namespace(op, P, p, a, c, f, i, q, r, s) ==
  [initiate_new_sequence |-> op = "initiate_new_sequence",
   generate_otp_range |-> op = "generate_otp_range",
   generate_otp_response |-> op = "generate_otp_response",
   force_password_prompt |-> P, password |-> p, hash_algo |-> a,
   challenge_string |-> c, output_format |-> f, step |-> i, quiet |-> q,
   range |-> r, seed |-> s]

\* 'short'
SHORT_PASSWORD == <<115, 104, 111, 114, 116>>

\* -P, -p 'This is a test.', -p 'short', or neither
PasswordOptions ==
  {<<TRUE, <<>>>>, <<FALSE, PASSWORD>>, <<FALSE, SHORT_PASSWORD>>, <<FALSE, <<>>>>}

\* 'otp-sha1 1 TeSt '
SHA1_CHALLENGE ==
  STR_otp \o STR_sha1 \o <<32, 49, 32>> \o SEED \o <<32>>

\* the command lines of the model.  The range is generated from steps -1, 0
\* and 2 with ranges 1, 2 and 5; a response is generated at steps 0 and 2, or
\* from the documented challenge (without -s, as documented), from
\* 'otp-sha1 1 TeSt ' or from 'bla'; a sequence is initiated at steps 0 and 2,
\* with or without a challenge.  The seed is 'TeSt' or not given.
MainArgs ==
  {Namespace("generate_otp_range", pp[1], pp[2], a, <<>>, f, i, q, r, s) :
     pp \in PasswordOptions, a \in {STR_md5, BLA}, f \in {STR_hex, STR_token},
     i \in {0 - 1, 0, 2}, q \in BOOLEAN, r \in {1, 2, 5}, s \in {<<>>, SEED}}
  \cup
  {Namespace("generate_otp_response", pp[1], pp[2], a, cs[1], f, i, q, 1, cs[2]) :
     pp \in PasswordOptions, a \in {STR_md5, STR_sha1, BLA},
     cs \in {<<<<>>, SEED>>, <<<<>>, <<>>>>, <<DOCUMENTED_CHALLENGE, <<>>>>,
             <<SHA1_CHALLENGE, SEED>>, <<SHA1_CHALLENGE, <<>>>>, <<BLA, SEED>>},
     f \in {STR_hex, STR_token}, i \in {0, 2}, q \in BOOLEAN}
  \cup
  {Namespace("initiate_new_sequence", pp[1], pp[2], a, c, STR_hex, i, q, 1, s) :
     pp \in PasswordOptions, a \in {STR_md5, STR_sha1, BLA},
     c \in {<<>>, SHA1_CHALLENGE}, i \in {0, 2}, q \in BOOLEAN,
     s \in {<<>>, SEED}}

\* what os.environ.get('OTP2289_PASSWORD') is
Environ == {PyNone, PyStr(PASSWORD), PyStr(<<>>)}

\* what the path args.password is: no file, a file with the password and
\* blanks around it on its first line, a file that cannot be read
NO_FILE == Ok(<<>>)

PasswordFiles ==
  {NO_FILE, Ok(<<32>> \o PASSWORD \o <<32, 10>>), Raise("PermissionError", "")}

\* what is typed at a password prompt
Typed == {PASSWORD, SHORT_PASSWORD}

\* what get_rnd_seed returns: 'Ab12345'
RandomSeeds == {<<65, 98, 49, 50, 51, 52, 53>>}

\* the locals of a run of main at a line; fetch tells how get_password ended
MainFrame(line, args, password, fetch, prompts, ops) ==
  [line |-> line, args |-> args, password |-> password, fetch |-> fetch,
   prompts |-> prompts, out |-> ops.out, ran |-> ops.ran, res |-> ops.res]

NoOperation == [out |-> <<>>, ran |-> <<>>, res |-> Ok(<<>>)]

\* sys.exit(code) at a line of main
SysExit(line, code, fetch, ops) ==
  /\ frame' = MainFrame(line, frame.args, frame.password, fetch, frame.prompts, ops)
  /\ last' = [op |-> "main", args |-> <<frame.args>>, state |-> 0,
              res |-> [exc |-> "SystemExit", msg |-> "", val |-> <<code>>]]
  /\ UNCHANGED <<heap, data, states, run>>

\* get_password has returned password: args.password is assigned
PasswordFetched(password) ==
  /\ frame' = MainFrame(367, [frame.args EXCEPT !.password = password], password,
                        "returned", frame.prompts, NoOperation)
  /\ UNCHANGED <<heap, data, states, last, run>>

\* line 357: parser.parse_args has returned args
ParseArgs(args) ==
  /\ frame.line = 0
  /\ frame' = MainFrame(360, args, <<>>, "", 0, NoOperation)
  /\ UNCHANGED <<heap, data, states, last, run>>

\* get_password up to its return or its first prompt
GetPassword(environ, file) ==
  /\ frame.line = 360
  /\ IF frame.args.force_password_prompt
          \/ (frame.args.password = <<>> /\ environ = PyNone)
       THEN /\ frame' = [frame EXCEPT !.line = 152]
            /\ UNCHANGED <<heap, data, states, last, run>>
     ELSE IF frame.args.password = <<>> THEN PasswordFetched(environ.v)
     ELSE IF file = NO_FILE THEN PasswordFetched(frame.args.password)
     ELSE IF file.exc # "" THEN SysExit(366, 1, "failed", NoOperation)
     ELSE PasswordFetched(strip(file.val))

\* the prompt, or both prompts of initiate-new-sequence, answered: with two
\* different passwords the prompt comes again
PromptAnswered(password, repeated) ==
  /\ frame.line = 152
  /\ IF ~frame.args.initiate_new_sequence \/ password = repeated
       THEN PasswordFetched(password)
       ELSE /\ frame.prompts < MaxPrompts
            /\ frame' = [frame EXCEPT !.prompts = @ + 1]
            /\ UNCHANGED <<heap, data, states, last, run>>

\* KeyboardInterrupt at a prompt
PromptInterrupted ==
  /\ frame.line = 152
  /\ SysExit(363, EACCES, "interrupted", NoOperation)

\* EOFError at a prompt
PromptFailed ==
  /\ frame.line = 152
  /\ SysExit(366, 1, "failed", NoOperation)

\* the try block of main and the exit after it; ops is what the block did
ExitAfter(ops) ==
  SysExit(IF ops.res.exc = "" THEN 374 ELSE 381, exit_code(ops.res), "returned", ops)

\* what get_password returns in the model
FetchedPasswords == Typed \cup {<<>>}

\* the try block for every command line with a fetched password and every
\* random seed, computed once
RUN_OPERATIONS_MEMO ==
  [args \in {[a EXCEPT !.password = p] : a \in MainArgs, p \in FetchedPasswords}
     |-> [rnd_seed \in RandomSeeds
            |-> run_operations(Operations, args, rnd_seed, NoOperation)]]

RunOperations(rnd_seed) ==
  /\ frame.line = 367
  /\ ExitAfter(RUN_OPERATIONS_MEMO[frame.args][rnd_seed])

NextMain ==
  \/ \E args \in MainArgs : ParseArgs(args)
  \/ \E environ \in Environ, file \in PasswordFiles : GetPassword(environ, file)
  \/ \E password \in Typed, repeated \in Typed : PromptAnswered(password, repeated)
  \/ PromptInterrupted
  \/ PromptFailed
  \/ \E rnd_seed \in RandomSeeds : RunOperations(rnd_seed)

\* SpecMain: one run of main
SpecMain == Init /\ [][NextMain]_vars

\* the same when every step that can be taken is taken in the end: what is
\* typed at a prompt comes, and main goes on when get_password has returned
SpecMainFair == SpecMain /\ WF_vars(NextMain)

(***************************************************************************)
(* Properties of the command line, checked under SpecMain.                 *)
(***************************************************************************)
\* main has left through sys.exit
Exited == last.op = "main"

ExitCode == last.res.val[1]

\* the run has called the named operation and nothing else
Ran(op) == Exited /\ frame.ran = <<op>>

\* the generator can be constructed from the arguments
GeneratorArgsValid(args) ==
  /\ Len(encode(args.password)) > 10
  /\ ValidSeed(PyStr(args.seed))
  /\ ValidAlgo(PyStr(args.hash_algo))

\* the lines of a str: what is between its line separators
Lines(s) ==
  LET breaks == {0, Len(s) + 1} \cup {i \in 1..Len(s) : <<s[i]>> = linesep}
      break(k) == CHOOSE p \in breaks : Cardinality({q \in breaks : q < p}) = k - 1
  IN  [k \in 1..(Cardinality(breaks) - 1)
         |-> SubSeq(s, break(k) + 1, break(k + 1) - 1)]

Min(a, b) == IF a < b THEN a ELSE b

\* generate_otp_range was called with a step >= 0, a range >= 1 and
\* arguments a generator can be constructed from
RangeRun ==
  /\ Ran("generate_otp_range")
  /\ frame.args.step >= 0 /\ frame.args.range >= 1
  /\ GeneratorArgsValid(frame.args)

\* the line '<step>: <value>' of a step
RangeLine(args, step) ==
  str_int(step) \o <<58, 32>>
    \o generate_otp([password |-> encode(args.password), seed |-> args.seed,
                     hash_algo |-> args.hash_algo],
                    PyInt(step), args.output_format = STR_token).val

\* what generate_otp_range returned is, after a header line with the clamped
\* range when there has to be one, the min(range, step + 1) lines of the
\* steps step, step - 1, ..., and the generator was asked for these steps,
\* none of them negative
RangeOutput(args, headed) ==
  LET n == Min(args.range, args.step + 1)
      asked == range_steps(args.step, args.range)
      lines == Lines(frame.res.val)
      h == IF headed THEN 1 ELSE 0
  IN  /\ frame.res.exc = ""
      /\ asked = [i \in 1..n |-> args.step - i + 1]
      /\ \A i \in 1..Len(asked) : asked[i] >= 0
      /\ Len(lines) = n + h
      /\ headed => lines[1] = header_of(args.seed, args.step, args.hash_algo)
                                \o range_suffix(n)
      /\ \A i \in 1..n : lines[h + i] = RangeLine(args, args.step - i + 1)
      /\ frame.out = frame.res.val \o linesep

\* C23: generate_otp_range with a step s >= 0 and a range r >= 1 outputs
\* exactly min(r, s + 1) lines '<step>: <value>' for the steps s, s - 1, ...
\* in descending order, never asks the generator for a negative step, and
\* whenever -q is not given a header line comes first, which reports the
\* clamped range
C23_RangeClamping == RangeRun => RangeOutput(frame.args, ~frame.args.quiet)

\* what does hold: the header comes when -q is not given and the range is
\* not 1; for a range of 1 the line of the step is all that is returned
RangeHeaderAboveOne ==
  RangeRun => RangeOutput(frame.args, ~frame.args.quiet /\ frame.args.range # 1)

\* the digest of step 499 of the MD5 chain of 'This is a test.' and 'TesT'
DOCUMENTED_DIGEST == <<99, 35, 249, 98, 150, 162, 82, 107>>

\* main was called as documented: --generate-otp-response
\* -c "otp-md5 499 TesT " -f token, no -s, no -a, and a password that a
\* generator accepts
DocumentedRun ==
  /\ Exited
  /\ frame.fetch = "returned"
  /\ frame.args.generate_otp_response
  /\ frame.args.challenge_string = DOCUMENTED_CHALLENGE
  /\ frame.args.output_format = STR_token
  /\ frame.args.seed = <<>> /\ frame.args.hash_algo = STR_md5
  /\ Len(encode(frame.args.password)) > 10

\* C24: called as documented, with a valid password and without -s, main
\* prints the six words of step 499 of the MD5 chain of the challenge's seed
\* and leaves with code 0
C24_ChallengeMode ==
  DocumentedRun
    => /\ ExitCode = 0
       /\ frame.out = bytes_to_tokens(DOCUMENTED_DIGEST) \o linesep

\* what does hold: with a seed given by -s the response is the one for the
\* algorithm, step and seed of the challenge, whatever -a and -i are
ChallengeModeWithSeed ==
  (/\ Ran("generate_otp_response")
   /\ frame.args.challenge_string = SHA1_CHALLENGE
   /\ GeneratorArgsValid(frame.args))
    => /\ ExitCode = 0
       /\ frame.out = generate_otp(Gen(STR_sha1), PyInt(1),
                                   frame.args.output_format = STR_token).val
                        \o linesep

\* the operation the command line selects
Selected(args) ==
  IF args.initiate_new_sequence THEN "initiate_new_sequence"
  ELSE IF args.generate_otp_range THEN "generate_otp_range"
  ELSE "generate_otp_response"

\* the code main has left with: 0 exactly when the selected operation
\* returned and its result was printed, 1 when the generator or the challenge
\* validation raised or the password could not be fetched, errno.EACCES when a
\* password prompt was interrupted; the selected operation is the only one
\* that is called, and it is called once the password is fetched
ExitCodeRule ==
  /\ ExitCode = 0
       <=> /\ frame.fetch = "returned"
           /\ frame.res.exc = ""
           /\ frame.out = frame.res.val \o linesep
  /\ (\/ frame.fetch = "failed"
      \/ frame.res.exc \in {"OTPGeneratorException", "OTPChallengeException"})
       => ExitCode = 1
  /\ frame.fetch = "interrupted" <=> ExitCode = EACCES
  /\ ExitCode \in {0, 1, EACCES}
  /\ frame.ran = IF frame.fetch = "returned" THEN <<Selected(frame.args)>> ELSE <<>>

StoreCallRaises == StoreCall(last') /\ last'.res.exc # ""

\* C26: whenever store.response_validates raises, the two dicts of the store
\* are as they were before the call and so is the state that was looked up,
\* its stored response and with it its 'validated' property included
C26_UnchangedOnError ==
  [][StoreCallRaises => (data' = data /\ states' = states /\ heap' = heap)]_vars

\* what does hold: the dicts are as before when the call raises for a missing
\* key, for a malformed response or for the step below 0
DictsUnchangedOnError ==
  [][(/\ StoreCallRaises
      /\ \/ last'.res = Raise("KeyError", "key")
         \/ last'.res.exc \in {"OTPInvalidResponse", "OTPStateException"})
       => (data' = data /\ states' = states)]_vars

(***************************************************************************)
(* SpecRace: two callers in OTPStore.response_validates(key, response) at  *)
(* the same time, without a lock, one statement of the method at a time.   *)
(* frame[c] is the position and the locals of caller c.  A caller makes    *)
(* one call; the store is provisioned before the first call.  The tests    *)
(* of lines 440 and the return of line 445 read locals only and are taken  *)
(* together with the statement before them; state.response_validates and   *)
(* state.get_next_state are one step each.                                 *)
(***************************************************************************)
Callers == {1, 2}

\* a caller that has not called yet
NotCalled ==
  [line |-> 0, key |-> PyNone, response |-> PyNone, state |-> 0,
   rvalue |-> Ok(<<>>), next_state |-> 0, returned |-> FALSE]

InitRace ==
  /\ heap = <<>>
  /\ data = EmptyDict
  /\ states = EmptyDict
  /\ last = [op |-> "OTPStore", args |-> <<>>, state |-> 0, res |-> Ok(<<>>)]
  /\ run = [k \in Keys |-> {}]
  /\ frame = [c \in Callers |-> NotCalled]

\* caller c is at line with the locals of f
At(c, f, line) == frame' = [frame EXCEPT ![c] = [f EXCEPT !.line = line]]

\* the call of caller c returns or raises res
Return(c, res) ==
  frame' = [frame EXCEPT ![c] = [@ EXCEPT !.line = 0, !.rvalue = res,
                                          !.returned = TRUE]]

\* self._states.pop(state) had it been given a default
states_pop_with_default(s, state) ==
  [res |-> Ok(<<>>), states |-> DictDel(s, state)]

\* self._states.pop(state): [res, states]
states_pop(s, state) ==
  IF state \in DOMAIN s THEN [res |-> Ok(<<>>), states |-> DictDel(s, state)]
  ELSE [res |-> Raise("KeyError", "state"), states |-> s]

\* state = self._data[key]
Race438(c, key, response) ==
  /\ frame[c] = NotCalled
  /\ IF key \in DOMAIN data
       THEN At(c, [NotCalled EXCEPT !.key = key, !.response = response,
                                    !.state = data[key]], 439)
       ELSE Return(c, Raise("KeyError", "key"))
  /\ UNCHANGED <<heap, data, states, last, run>>

\* rv is what state.response_validates(response, True) did
RaceAfter439(c, rv) ==
  /\ heap' = [heap EXCEPT ![frame[c].state] = rv.self]
  /\ IF IsTrue(rv.res) THEN At(c, [frame[c] EXCEPT !.rvalue = rv.res], 441)
     ELSE Return(c, rv.res)
  /\ UNCHANGED <<data, states, last, run>>

\* rvalue = state.response_validates(response, store_valid_response);
\* if rvalue and store_valid_response: ... else return rvalue
Race439(c) ==
  /\ frame[c].line = 439
  /\ RaceAfter439(c, OTPState_response_validates(heap[frame[c].state],
                                                 frame[c].response, TRUE))

\* next is what state.get_next_state() did
RaceAfter441(c, next) ==
  /\ next.exc = "" => Len(heap) < MaxObjs
  /\ IF next.exc = ""
       THEN /\ heap' = Append(heap, next.val[1])
            /\ At(c, [frame[c] EXCEPT !.next_state = Len(heap) + 1], 442)
       ELSE /\ Return(c, next)
            /\ UNCHANGED heap
  /\ UNCHANGED <<data, states, last, run>>

\* next_state = state.get_next_state()
Race441(c) ==
  /\ frame[c].line = 441
  /\ RaceAfter441(c, get_next_state(heap[frame[c].state]))

\* self._data[key] = next_state
Race442(c) ==
  /\ frame[c].line = 442
  /\ data' = DictSet(data, frame[c].key, frame[c].next_state)
  /\ At(c, frame[c], 443)
  /\ UNCHANGED <<heap, states, last, run>>

\* self._states[next_state] = key
Race443(c) ==
  /\ frame[c].line = 443
  /\ states' = DictSet(states, frame[c].next_state, frame[c].key)
  /\ At(c, frame[c], 444)
  /\ UNCHANGED <<heap, data, last, run>>

\* popped is what self._states.pop(state) did
RaceAfter444(c, popped) ==
  /\ states' = popped.states
  /\ Return(c, IF popped.res.exc = "" THEN frame[c].rvalue ELSE popped.res)
  /\ UNCHANGED <<heap, data, last, run>>

\* self._states.pop(state); return rvalue
Race444(c) ==
  /\ frame[c].line = 444
  /\ RaceAfter444(c, states_pop(states, frame[c].state))

\* no caller has called yet
NoCallYet == \A c \in Callers : frame[c] = NotCalled

NextRace ==
  \/ \E o \in StoreOtHexArgs, n \in StoreStepArgs :
       NoCallYet /\ NewOTPState(o, n, PyStr(SEED), PyStr(STR_md5))
  \/ \E k \in Keys, id \in 1..Len(heap) : NoCallYet /\ AddState(k, PyObj(id))
  \/ \E c \in Callers, k \in Keys, r \in StoreResponses : Race438(c, k, r)
  \/ \E c \in Callers : Race439(c)
  \/ \E c \in Callers : Race441(c)
  \/ \E c \in Callers : Race442(c)
  \/ \E c \in Callers : Race443(c)
  \/ \E c \in Callers : Race444(c)

SpecRace == InitRace /\ [][NextRace]_vars

\* caller c has called with a key and a response and has got True
GotTrue(c, key, response) ==
  /\ frame[c].returned /\ IsTrue(frame[c].rvalue)
  /\ frame[c].key = key /\ frame[c].response = response

\* C27: of two callers that are in store.response_validates(k, r, True) at
\* the same time with the same key and the same response, at most one gets
\* True
C27_NoDoubleAcceptance ==
  \A k \in Keys, r \in StoreResponses : ~(GotTrue(1, k, r) /\ GotTrue(2, k, r))

\* both callers have validated the response against the same state before
\* either has rebound the key: one has got True, the other KeyError from
\* self._states.pop(state)
C27_OneTrueOneKeyError ==
  \E c \in Callers, d \in Callers :
    /\ frame[c].returned /\ IsTrue(frame[c].rvalue)
    /\ frame[d].returned /\ frame[d].rvalue = Raise("KeyError", "state")
    /\ frame[c].key = frame[d].key /\ frame[c].response = frame[d].response
    /\ frame[c].state = frame[d].state

(***************************************************************************)
(* The two kinds of state, checked under SpecState.                        *)
(***************************************************************************)
\* self is of one of the two kinds: no expected digest, or one of 8 bytes
OfEitherKind(self) ==
  \/ Bootstrap(self)
  \/ Bound(self) /\ Len(self.current_digest.v) = 8

\* the step is a call of store.response_validates on a key that is bound
StoreCallOnKey == StoreCall(last') /\ last'.args[1] \in DOMAIN data

\* the state the key of the call is bound to before and after the step
StateBefore == heap[data[last'.args[1]]]

StateAfter == heap'[data'[last'.args[1]]]

\* C28: every state has no expected digest or one of exactly 8 bytes; a key
\* that is bound to a state with a digest is bound to a state with a digest
\* after every call of store.response_validates; a key bound to a state
\* without a digest is bound to a state with a digest after the first
\* store.response_validates(key, r, True) that returns True; and
\* get_next_state never returns a state without a digest
C28_TwoStateMachine ==
  [][/\ \A id \in 1..Len(heap') : OfEitherKind(heap'[id])
     /\ (StoreCallOnKey /\ Bound(StateBefore))
          => (last'.args[1] \in DOMAIN data' /\ Bound(StateAfter))
     /\ (StoreCallOnKey /\ Bootstrap(StateBefore)
           /\ last'.args[3] /\ IsTrue(last'.res))
          => Bound(StateAfter)
     /\ (last'.op = "get_next_state" /\ last'.res.exc = ""
           /\ last'.res.val # <<>>)
          => Bound(heap'[last'.res.val[1]])]_vars

\* a key that was bound to a state without a digest has accepted a response
\* and is bound to a state with a digest, which has then refused a response
C28_BecameBoundAndStayed ==
  /\ StoreCall(last) /\ IsFalse(last.res)
  /\ last.state > 1 /\ Bound(heap[last.state])
  /\ Bootstrap(heap[1])
  /\ data[last.args[1]] = last.state

(***************************************************************************)
(* The order in which a key consumes its chain, checked under Spec.        *)
(***************************************************************************)
\* x_0 .. x_MaxStep of the MD5 chain the store is provisioned from
CHAIN_VALUES == [n \in 0..MaxStep |-> compute_digest(Gen(STR_md5), n)]

OnChain(b) == \E n \in 0..MaxStep : CHAIN_VALUES[n] = b

\* the n with x_n = b
ChainIndex(b) == CHOOSE n \in 0..MaxStep : CHAIN_VALUES[n] = b

\* the step is store.response_validates(key, r, .) on a key whose state
\* expects a value of the chain, with a response that is a value of the chain
ChainCall ==
  /\ StoreCallOnKey
  /\ Bound(StateBefore) /\ OnChain(StateBefore.current_digest.v)
  /\ RESPONSE_BYTES_MEMO[last'.args[2]].exc = ""
  /\ OnChain(RESPONSE_BYTES_MEMO[last'.args[2]].val)

\* m of the x_m the key's state expects, i of the x_i that is the response
Expected == ChainIndex(StateBefore.current_digest.v)

Responded == ChainIndex(RESPONSE_BYTES_MEMO[last'.args[2]].val)

\* C29: the values of the chain are distinct, and of a key whose state
\* expects x_m store.response_validates accepts x_(m-1) only: every other
\* value of the chain (one further down, x_m itself or one above) gets False
\* and leaves the store as it was; x_(m-1) never gets False, and when it is
\* accepted and stored the key's state expects x_(m-1) at the old step minus
\* one, so that the i-th response a key consumes is x_(m-i) and its step after
\* j of them is the first step minus j
C29_InOrderConsumption ==
  [][/\ \A i, j \in 0..MaxStep : CHAIN_VALUES[i] = CHAIN_VALUES[j] => i = j
     /\ ChainCall =>
          /\ Responded # Expected - 1
               => (IsFalse(last'.res) /\ data' = data /\ states' = states
                     /\ heap' = heap)
          /\ Responded = Expected - 1 => ~IsFalse(last'.res)
          /\ IsTrue(last'.res) => Responded = Expected - 1
          /\ (IsTrue(last'.res) /\ last'.args[3])
               => /\ Bound(StateAfter)
                  /\ StateAfter.current_digest.v = CHAIN_VALUES[Expected - 1]
                  /\ StateAfter.step = StateBefore.step - 1
                  /\ run'[last'.args[1]]
                       = run[last'.args[1]] \cup {CHAIN_VALUES[Expected - 1]}]_vars

\* a key provisioned at step MaxStep with x_MaxStep has consumed x_(MaxStep-1)
\* and then x_(MaxStep-2), and has refused the value it had skipped
C29_TwoConsumedInOrder ==
  /\ StoreCall(last) /\ IsFalse(last.res)
  /\ last.args[1] \in DOMAIN data
  /\ run[last.args[1]] = {CHAIN_VALUES[MaxStep - 1], CHAIN_VALUES[MaxStep - 2]}
  /\ heap[1].current_digest = PyBytes(CHAIN_VALUES[MaxStep])
  /\ heap[1].step = MaxStep
  /\ heap[last.state].current_digest = PyBytes(CHAIN_VALUES[MaxStep - 2])
  /\ heap[last.state].step = MaxStep - 2

(***************************************************************************)
(* What the store holds after an advance, checked under Spec.              *)
(***************************************************************************)
\* state in store (OTPStore.__contains__), store.get(key), len(store)
contains(s, state) == state \in DOMAIN s

get(d, key) == IF key \in DOMAIN d THEN <<d[key]>> ELSE <<>>

len(d) == Cardinality(DOMAIN d)

\* C30: after store.response_validates(k, r, True) has returned True the
\* state the key was bound to is not in the store, store.get(k) is another
\* object, the new state, which is in the store, and len(store) is what it was
C30_OldStateDiscarded ==
  [][(StoreCall(last') /\ last'.args[3] /\ IsTrue(last'.res))
     => /\ ~contains(states', last'.state)
        /\ get(data', last'.args[1]) # <<last'.state>>
        /\ get(data', last'.args[1]) = <<Len(heap')>>
        /\ Len(heap') = Len(heap) + 1
        /\ contains(states', Len(heap'))
        /\ len(data') = len(data)]_vars

\* a store of two keys has advanced one of them: the old state is out, the
\* new one is in, and the store still has two keys
C30_AdvancedAmongTwoKeys ==
  /\ StoreCall(last) /\ last.args[3] /\ IsTrue(last.res)
  /\ len(data) = 2
  /\ ~contains(states, last.state)
  /\ get(data, last.args[1]) = <<Len(heap)>>
  /\ contains(states, Len(heap))


=============================================================================
